---- MODULE Spec2Model ----
(***************************************************************************)
(* pg-large-object: LargeObjectManager, LargeObject, ReadStream,           *)
(* WriteStream and promiseFromCallback, over a query adapter that answers  *)
(* queries in submission order.                                            *)
(*                                                                         *)
(* Every library function is an operator from a machine state (a record   *)
(* with one field per variable, plus the transient field `thrown` for a    *)
(* synchronous exception) to the machine state it leaves behind.  One      *)
(* action is one turn of the JavaScript event loop: a call by the caller,  *)
(* the callback of one answered query, one stream event.                   *)
(*                                                                         *)
(* ReadStream and WriteStream inherit from stream.Readable and             *)
(* stream.Writable; the inherited state (reading, ended, writing, the      *)
(* buffered chunks, ...) is modelled after the documented behaviour of     *)
(* those classes: _read is not called again before push(), nor after       *)
(* push(null), and push() itself does not call _read; _write is not called *)
(* again before its callback; 'finish' is not emitted after an error.      *)
(***************************************************************************)
EXTENDS Integers, Sequences, FiniteSets, TLC

\* ---------------------------------------------------------------- bounds
MaxSize == 3        \* largest initial large object, in bytes
MaxBuf == 2         \* largest explicit bufferSize
MaxOid == 2         \* largest oid a caller passes
MaxCalls == 1       \* calls of the manager in one run of SpecManager
MaxChunks == 3      \* chunks a producer writes to one WriteStream
MaxOps == 4         \* operations on one handle in one run of SpecHandle

\* ------------------------------------------------------- program constants
WRITE == 131072                 \* 0x00020000
READ == 262144                  \* 0x00040000
DefaultBufferSize == 16384
SEEK_SET == 0
SEEK_CUR == 1
SEEK_END == 2

RECURSIVE BitOr(_, _)
BitOr(a, b) ==
    IF a = 0 THEN b
    ELSE IF b = 0 THEN a
    ELSE (IF a % 2 = 1 \/ b % 2 = 1 THEN 1 ELSE 0) + 2 * BitOr(a \div 2, b \div 2)

READWRITE == BitOr(WRITE, READ)

\* ------------------------------------------------------ JavaScript values
JsNum(n) == [ty |-> "number", v |-> n]
JsNull == [ty |-> "null", v |-> 0]
JsUndefined == [ty |-> "undefined", v |-> 0]

\* !x for the values above
Falsy(x) == x.ty \in {"null", "undefined"} \/ (x.ty = "number" /\ x.v = 0)

\* a Buffer holding bytes b
Buf(b) == [isBuffer |-> TRUE, bytes |-> b]
\* a string chunk, which is no Buffer
Str(b) == [isBuffer |-> FALSE, bytes |-> b]

NoError == [e |-> "null", qid |-> 0]
\* the error the adapter reports for query qid
DatabaseError(qid) == [e |-> "DatabaseError", qid |-> qid]
IllegalArgument == [e |-> "Illegal Argument", qid |-> 0]
\* calling a callback that is undefined
TypeError == [e |-> "TypeError", qid |-> 0]

NoObj == [oid |-> 0, fd |-> -1]
\* new LargeObject(query, oid, fd)
LargeObject(oid, fd) == [oid |-> oid, fd |-> fd]

\* a callback: kind k, belonging to call or stream c, closing over obj, n and m
Cb(k, c, obj, n, m) == [k |-> k, c |-> c, obj |-> obj, n |-> n, m |-> m]
NoCb == Cb("undefined", 0, NoObj, 0, 0)
CallerCb(c) == Cb("caller", c, NoObj, 0, 0)

\* an entry of the history
Ev(t, name, id, x, y) == [t |-> t, name |-> name, id |-> id, x |-> x, y |-> y]

RECURSIVE Flatten(_)
Flatten(chunks) ==
    IF chunks = <<>> THEN <<>> ELSE Head(chunks) \o Flatten(Tail(chunks))

Min(a, b) == IF a < b THEN a ELSE b

VARIABLES
    objects,    \* server: oid -> bytes of each existing large object
    fds,        \* server: descriptor -> [oid, mode, pos] of each open descriptor
    queue,      \* queries submitted to the adapter and not yet answered, FIFO
    nq,         \* number of queries submitted so far
    log,        \* history: queries issued, answers, pushes, events, warnings
    calls,      \* the caller's calls and what came back of each
    rs,         \* ReadStreams, by the call that made them
    ws,         \* WriteStreams, by the call that made them
    adapter     \* what this._query of the manager is: "pg" or "pgPromise"

vars == <<objects, fds, queue, nq, log, calls, rs, ws, adapter>>

\* the machine state as a record
St ==
    [objects |-> objects, fds |-> fds, queue |-> queue, nq |-> nq, log |-> log,
     calls |-> calls, rs |-> rs, ws |-> ws, adapter |-> adapter, thrown |-> NoError]

\* the machine state s becomes the next state
Becomes(s) ==
    /\ objects' = s.objects
    /\ fds' = s.fds
    /\ queue' = s.queue
    /\ nq' = s.nq
    /\ log' = s.log
    /\ calls' = s.calls
    /\ rs' = s.rs
    /\ ws' = s.ws
    /\ adapter' = s.adapter

Logged(s, ev) == [s EXCEPT !.log = Append(@, ev)]

\* throw e: nothing else happens in the throwing function
Throw(s, e) == [s EXCEPT !.thrown = e]
Threw(s) == s.thrown # NoError

\* ------------------------------------------------------- the query adapter
\* this._query(config, fn): client.query of pg.  hasFn: a function was passed
\* (the operation's own function(err, result), which calls the callback cb).
Query(s, name, values, hasFn, cb) ==
    LET qid == s.nq + 1
        q == [qid |-> qid, name |-> name, values |-> values, hasFn |-> hasFn, cb |-> cb]
    IN  Logged([s EXCEPT !.queue = Append(@, q), !.nq = qid],
               Ev("issue", name, qid, values, cb))

\* --------------------------------------------------------------- the server
HasWrite(mode) == (mode \div WRITE) % 2 = 1

FreeFd(f) == CHOOSE n \in 0..Cardinality(DOMAIN f) : n \notin DOMAIN f
FreshOid(o) == CHOOSE n \in 1..(Cardinality(DOMAIN o) + 1) : n \notin DOMAIN o

Without(f, k) == [x \in DOMAIN f \ {k} |-> f[x]]

\* bytes data written over old at offset pos; a gap past the end reads as
\* zeros, and writing no bytes changes nothing
Overwrite(old, pos, data) ==
    LET n == IF pos + Len(data) > Len(old) THEN pos + Len(data) ELSE Len(old)
    IN  IF data = <<>> THEN old
        ELSE [i \in 1..n |-> IF i > pos /\ i <= pos + Len(data) THEN data[i - pos]
                             ELSE IF i <= Len(old) THEN old[i] ELSE 0]

\* lo_truncate64: the first length bytes of old, filled up with zeros
Truncated(old, length) == [i \in 1..length |-> IF i <= Len(old) THEN old[i] ELSE 0]

\* lo_lseek64 on descriptor d of an object of size bytes: the new position
Seek(d, size, position, ref) ==
    CASE ref = SEEK_SET -> position
      [] ref = SEEK_CUR -> d.pos + position
      [] OTHER -> size + position

\* The server's answer to query q, which fails when ~ok or when q names no
\* object or descriptor: [s: the machine state after it, err, result].
Exec(s, q, ok) ==
    LET v == q.values
        fail == [s |-> s, err |-> DatabaseError(q.qid), result |-> 0]
        fdOk == v[1] \in DOMAIN s.fds
    IN  CASE ~ok -> fail
          [] q.name = "npg_lo_open" ->
                IF v[1].v \in DOMAIN s.objects
                THEN LET fd == FreeFd(s.fds)
                     IN  [s |-> [s EXCEPT !.fds = @ @@ (fd :> [oid |-> v[1].v, mode |-> v[2], pos |-> 0])],
                          err |-> NoError, result |-> fd]
                ELSE fail
          [] q.name = "npg_lo_creat" ->
                LET oid == FreshOid(s.objects)
                IN  [s |-> [s EXCEPT !.objects = @ @@ (oid :> <<>>)],
                     err |-> NoError, result |-> oid]
          [] q.name = "npg_lo_unlink" ->
                IF v[1].v \in DOMAIN s.objects
                THEN [s |-> [s EXCEPT !.objects = Without(@, v[1].v)],
                      err |-> NoError, result |-> 1]
                ELSE fail
          [] q.name = "npg_loread" ->
                IF fdOk /\ s.fds[v[1]].oid \in DOMAIN s.objects
                THEN LET d == s.fds[v[1]]
                         bytes == s.objects[d.oid]
                         to == Min(Len(bytes), d.pos + v[2])
                         data == SubSeq(bytes, d.pos + 1, to)
                     IN  [s |-> [s EXCEPT !.fds[v[1]].pos = IF to > d.pos THEN to ELSE d.pos],
                          err |-> NoError, result |-> Buf(data)]
                ELSE fail
          [] q.name = "npg_lowrite" ->
                IF fdOk /\ s.fds[v[1]].oid \in DOMAIN s.objects /\ HasWrite(s.fds[v[1]].mode)
                THEN LET d == s.fds[v[1]]
                         old == s.objects[d.oid]
                     IN  [s |-> [s EXCEPT !.objects[d.oid] = Overwrite(old, d.pos, v[2].bytes),
                                          !.fds[v[1]].pos = d.pos + Len(v[2].bytes)],
                          err |-> NoError, result |-> Len(v[2].bytes)]
                ELSE fail
          [] q.name = "npg_size" ->
                IF fdOk /\ s.fds[v[1]].oid \in DOMAIN s.objects
                THEN LET d == s.fds[v[1]]
                         location == d.pos                                \* lo_tell64($1)
                         size == Seek(d, Len(s.objects[d.oid]), 0, 2)     \* lo_lseek64($1, 0, 2)
                         back == Seek([d EXCEPT !.pos = size], Len(s.objects[d.oid]), location, 0)
                     IN  [s |-> [s EXCEPT !.fds[v[1]].pos = back], err |-> NoError, result |-> size]
                ELSE fail
          [] q.name = "npg_lo_lseek64" ->
                IF fdOk /\ s.fds[v[1]].oid \in DOMAIN s.objects
                   /\ v[3] \in {SEEK_SET, SEEK_CUR, SEEK_END}
                   /\ Seek(s.fds[v[1]], Len(s.objects[s.fds[v[1]].oid]), v[2], v[3]) >= 0
                THEN LET d == s.fds[v[1]]
                         location == Seek(d, Len(s.objects[d.oid]), v[2], v[3])
                     IN  [s |-> [s EXCEPT !.fds[v[1]].pos = location],
                          err |-> NoError, result |-> location]
                ELSE fail
          [] q.name = "npg_lo_tell64" ->
                IF fdOk
                THEN [s |-> s, err |-> NoError, result |-> s.fds[v[1]].pos]
                ELSE fail
          [] q.name = "npg_lo_truncate64" ->
                IF fdOk /\ s.fds[v[1]].oid \in DOMAIN s.objects /\ HasWrite(s.fds[v[1]].mode)
                   /\ v[2] >= 0
                THEN [s |-> [s EXCEPT !.objects[s.fds[v[1]].oid] = Truncated(@, v[2])],
                      err |-> NoError, result |-> 0]
                ELSE fail
          [] q.name = "npg_lo_close" ->
                IF fdOk
                THEN [s |-> [s EXCEPT !.fds = Without(@, v[1])], err |-> NoError, result |-> 0]
                ELSE fail
          [] q.name = "COMMIT" ->
                [s |-> [s EXCEPT !.fds = <<>>], err |-> NoError, result |-> 0]
          [] OTHER -> fail

\* ------------------------------------------------------ promiseFromCallback
Pending == [state |-> "pending", value |-> 0]
NoPromise == [state |-> "none", value |-> 0]

\* mutant: resolve settles the promise again
Resolve_overwrites(p, value) ==
    IF p.state = "none" THEN p ELSE [state |-> "fulfilled", value |-> value]

\* reject(error) / resolve(value) of a Promise: the first one settles it
Reject(p, error) == IF p.state = "pending" THEN [state |-> "rejected", value |-> error] ELSE p
Resolve(p, value) == IF p.state = "pending" THEN [state |-> "fulfilled", value |-> value] ELSE p

\* callback(error, arg1, arg2) of promiseFromCallback, for the promise of call c
PromiseCallback(s, c, error, arg1, arg2) ==
    IF error # NoError
    THEN [s EXCEPT !.calls[c].promise = Reject(@, error)]
    ELSE IF s.calls[c].twoArgs
         THEN [s EXCEPT !.calls[c].promise = Resolve(@, <<arg1, arg2>>)]
         ELSE [s EXCEPT !.calls[c].promise = Resolve(@, arg1)]

\* promiseFromCallback(fn, self, options), r being the machine state that
\* fn.call(self, callback) leaves: an exception of fn inside the executor of
\* new Promise rejects the promise and is not thrown to the caller.
PromiseFromCallback(r, c) ==
    IF Threw(r)
    THEN [r EXCEPT !.calls[c].promise = Reject(@, r.thrown), !.thrown = NoError]
    ELSE r

\* options.twoArgs of promiseFromCallback
WithTwoArgs(s, c) == [s EXCEPT !.calls[c].twoArgs = TRUE]

\* a function called directly by the caller: its exception reaches the caller
CalledDirectly(r, c) ==
    IF Threw(r)
    THEN [r EXCEPT !.calls[c].thrown = r.thrown, !.thrown = NoError]
    ELSE r

\* the record of a call by the caller
NewCall(op, style, args) ==
    [op |-> op, style |-> style, args |-> args, twoArgs |-> FALSE,
     thrown |-> NoError, cbs |-> <<>>, listening |-> FALSE,
     promise |-> IF style = "promise" THEN Pending ELSE NoPromise]

\* Error(message)
Error(message) == [e |-> message, qid |-> 0]

\* stream.on('end', listener) or stream.on('finish', listener) by the caller,
\* the listener being one that commits the transaction
Caller_on(s, stream) ==
    IF stream \in DOMAIN s.rs
    THEN [s EXCEPT !.rs[stream].onEnd = Append(@, "caller_commit")]
    ELSE IF stream \in DOMAIN s.ws
         THEN [s EXCEPT !.ws[stream].onFinish = Append(@, "caller_commit")]
         ELSE s

\* The caller's own function(err, a1, stream) of call c: it notes what it is
\* called with; the function of a caller of style "listening" registers its
\* listener on the stream it is handed, as in the example of the README, and
\* that of a caller of style "throwing" throws when it is handed a result.
Caller_callback(s, c, err, a1, a2) ==
    LET noted == [s EXCEPT !.calls[c].cbs = Append(@, <<err, a1, a2>>)]
    IN  CASE s.calls[c].style = "listening" /\ err = NoError -> Caller_on(noted, a2)
          [] s.calls[c].style = "throwing" /\ err = NoError -> Throw(noted, Error("baz"))
          [] OTHER -> noted

\* The callback of call c is invoked with (err, a1, a2): the caller's own
\* function, or the callback of promiseFromCallback.
Deliver(s, c, err, a1, a2) ==
    IF s.calls[c].style = "promise"
    THEN PromiseCallback(s, c, err, a1, a2)
    ELSE Caller_callback(s, c, err, a1, a2)

\* A function fn handed to promiseFromCallback, as those of the tests: it sees
\* its `this`, then throws fn.error (kind "throws"), or calls
\* callback(fn.error, fn.arg1, fn.arg2) (kind "calls") and throws Error('bar')
\* after that (kind "callsThenThrows"), or calls callback a second time, as
\* callback(fn.second, fn.arg2, fn.arg1) (kind "callsTwice").  Fn_call is
\* fn.call(self, callback).
Fn_call(s, fn, self, c) ==
    LET seen == Logged(s, Ev("call", fn.kind, c, self, 0))
        called == PromiseCallback(seen, c, fn.error, fn.arg1, fn.arg2)
    IN  CASE fn.kind = "throws" -> Throw(seen, fn.error)
          [] fn.kind = "calls" -> called
          [] fn.kind = "callsTwice" -> PromiseCallback(called, c, fn.second, fn.arg2, fn.arg1)
          [] OTHER -> Throw(called, Error("bar"))

\* mutant: fn is called outside the executor of the promise
promiseFromCallback_rethrows(s, fn, self, twoArgs, c) ==
    Fn_call(IF twoArgs THEN WithTwoArgs(s, c) ELSE s, fn, self, c)

\* promiseFromCallback(fn, self, options), twoArgs being options.twoArgs
promiseFromCallback(s, fn, self, twoArgs, c) ==
    PromiseFromCallback(Fn_call(IF twoArgs THEN WithTwoArgs(s, c) ELSE s, fn, self, c), c)

\* mutant: the handle remembers that it was closed, a second close() is not sent
LargeObject_close_once(s, obj, callback) ==
    IF \E i \in DOMAIN s.log :
            /\ s.log[i].t = "issue" /\ s.log[i].name = "npg_lo_close"
            /\ s.log[i].x[1] = obj.fd
    THEN s
    ELSE Query(s, "npg_lo_close", <<obj.fd>>, callback.k # "undefined", callback)

\* ------------------------------------------------------------- LargeObject
\* mutant: close closes descriptor 0, whatever the handle
LargeObject_close_first(s, obj, callback) ==
    Query(s, "npg_lo_close", <<0>>, callback.k # "undefined", callback)

LargeObject_close(s, obj, callback) ==
    Query(s, "npg_lo_close", <<obj.fd>>, callback.k # "undefined", callback)

\* mutant: read asks for one byte, whatever the length
LargeObject_read_oneByte(s, obj, length, callback) ==
    Query(s, "npg_loread", <<obj.fd, 1>>, TRUE, callback)

LargeObject_read(s, obj, length, callback) ==
    Query(s, "npg_loread", <<obj.fd, length>>, TRUE, callback)


\* mutant: write sends buffer.slice(1)
LargeObject_write_sliced(s, obj, buffer, callback) ==
    Query(s, "npg_lowrite", <<obj.fd, Buf(Tail(buffer.bytes \o <<0>>))>>,
          callback.k # "undefined", callback)

\* mutant: the buffer is written twice
LargeObject_write_twice(s, obj, buffer, callback) ==
    Query(Query(s, "npg_lowrite", <<obj.fd, buffer>>, FALSE, NoCb),
          "npg_lowrite", <<obj.fd, buffer>>, callback.k # "undefined", callback)

\* mutant: write rewinds to the start of the large object first
LargeObject_write_atStart(s, obj, buffer, callback) ==
    Query(Query(s, "npg_lo_lseek64", <<obj.fd, 0, SEEK_SET>>, FALSE, NoCb),
          "npg_lowrite", <<obj.fd, buffer>>, callback.k # "undefined", callback)

LargeObject_write(s, obj, buffer, callback) ==
    Query(s, "npg_lowrite", <<obj.fd, buffer>>, callback.k # "undefined", callback)

\* mutant: size seeks to the end and does not seek back
LargeObject_size_noSeekBack(s, obj, callback) ==
    Query(s, "npg_lo_lseek64", <<obj.fd, 0, SEEK_END>>, TRUE, callback)

LargeObject_size(s, obj, callback) ==
    Query(s, "npg_size", <<obj.fd>>, TRUE, callback)

\* mutant: position and ref are sent in the wrong order
LargeObject_seek_swapped(s, obj, position, ref, callback) ==
    Query(s, "npg_lo_lseek64", <<obj.fd, ref, position>>, callback.k # "undefined", callback)

\* mutant: every seek is a seek from the start
LargeObject_seek_fromStart(s, obj, position, ref, callback) ==
    Query(s, "npg_lo_lseek64", <<obj.fd, position, SEEK_SET>>, callback.k # "undefined", callback)

\* mutant: a seek without a callback is not sent
LargeObject_seek_unsent(s, obj, position, ref, callback) ==
    IF callback.k = "undefined"
    THEN s
    ELSE Query(s, "npg_lo_lseek64", <<obj.fd, position, ref>>, TRUE, callback)

LargeObject_seek(s, obj, position, ref, callback) ==
    Query(s, "npg_lo_lseek64", <<obj.fd, position, ref>>, callback.k # "undefined", callback)

LargeObject_tell(s, obj, callback) ==
    Query(s, "npg_lo_tell64", <<obj.fd>>, TRUE, callback)

\* mutant: truncate seeks to the new end first
LargeObject_truncate_seeks(s, obj, length, callback) ==
    Query(Query(s, "npg_lo_lseek64", <<obj.fd, length, SEEK_SET>>, FALSE, NoCb),
          "npg_lo_truncate64", <<obj.fd, length>>, callback.k # "undefined", callback)

LargeObject_truncate(s, obj, length, callback) ==
    Query(s, "npg_lo_truncate64", <<obj.fd, length>>, callback.k # "undefined", callback)

\* the promise-returning duals
LargeObject_closeAsync(s, obj, c) ==
    PromiseFromCallback(LargeObject_close(s, obj, CallerCb(c)), c)

LargeObject_readAsync(s, obj, length, c) ==
    PromiseFromCallback(LargeObject_read(s, obj, length, CallerCb(c)), c)

LargeObject_writeAsync(s, obj, buffer, c) ==
    PromiseFromCallback(LargeObject_write(s, obj, buffer, CallerCb(c)), c)

LargeObject_seekAsync(s, obj, position, ref, c) ==
    PromiseFromCallback(LargeObject_seek(s, obj, position, ref, CallerCb(c)), c)

LargeObject_tellAsync(s, obj, c) ==
    PromiseFromCallback(LargeObject_tell(s, obj, CallerCb(c)), c)

LargeObject_sizeAsync(s, obj, c) ==
    PromiseFromCallback(LargeObject_size(s, obj, CallerCb(c)), c)

LargeObject_truncateAsync(s, obj, length, c) ==
    PromiseFromCallback(LargeObject_truncate(s, obj, length, CallerCb(c)), c)

\* -------------------------------------------------------------- ReadStream
\* new ReadStream(largeObject, bufferSize), with the inherited Readable state
ReadStream(largeObject, bufferSize) ==
    [largeObject |-> largeObject,
     highWaterMark |-> IF Falsy(bufferSize) THEN DefaultBufferSize ELSE bufferSize.v,
     reading |-> FALSE, ended |-> FALSE, endEmitted |-> FALSE, errors |-> 0,
     buffer |-> <<>>, emitted |-> <<>>, onEnd |-> <<>>]

\* stream.push(chunk) of Readable: the pending _read is over, the chunk is
\* buffered for the consumer unless it is empty
Readable_push(s, sid, chunk) ==
    Logged([s EXCEPT !.rs[sid].reading = FALSE,
                     !.rs[sid].buffer = IF Len(chunk.bytes) > 0 THEN Append(@, chunk.bytes) ELSE @],
           Ev("push", "data", sid, chunk.bytes, 0))

\* stream.push(null) of Readable
Readable_pushNull(s, sid) ==
    Logged([s EXCEPT !.rs[sid].reading = FALSE, !.rs[sid].ended = TRUE],
           Ev("push", "null", sid, <<>>, 0))

\* stream.emit('error', error)
Readable_emitError(s, sid, error) ==
    Logged([s EXCEPT !.rs[sid].errors = @ + 1], Ev("emit", "error", sid, error, 0))


\* mutant: _read asks for the next block ahead of time, a second read query
ReadStream_read_ahead(s, sid, length) ==
    IF length <= 0
    THEN Throw(s, IllegalArgument)
    ELSE LargeObject_read(
             LargeObject_read(s, s.rs[sid].largeObject, length, Cb("_read", sid, NoObj, length, 0)),
             s.rs[sid].largeObject, length, Cb("_read", sid, NoObj, length, 0))

\* mutant: only a negative length is refused
ReadStream_read_negativeOnly(s, sid, length) ==
    IF length < 0
    THEN Throw(s, IllegalArgument)
    ELSE LargeObject_read(s, s.rs[sid].largeObject, length, Cb("_read", sid, NoObj, length, 0))

\* ReadStream.prototype._read
ReadStream_read(s, sid, length) ==
    IF length <= 0
    THEN Throw(s, IllegalArgument)
    ELSE LargeObject_read(s, s.rs[sid].largeObject, length, Cb("_read", sid, NoObj, length, 0))


\* mutant: the end is signalled only by an empty read (data.length === 0)
ReadStream_onRead_endOnEmpty(s, sid, length, error, data) ==
    IF error # NoError
    THEN Readable_emitError(s, sid, error)
    ELSE LET pushed == Readable_push(s, sid, data)
         IN  IF Len(data.bytes) = 0 THEN Readable_pushNull(pushed, sid) ELSE pushed

\* mutant: an error also ends the stream (push(null) after emit('error'))
ReadStream_onRead_endOnError(s, sid, length, error, data) ==
    IF error # NoError
    THEN Readable_pushNull(Readable_emitError(s, sid, error), sid)
    ELSE LET pushed == Readable_push(s, sid, data)
         IN  IF Len(data.bytes) < length THEN Readable_pushNull(pushed, sid) ELSE pushed

\* mutant: the end is signalled after the first block
ReadStream_onRead_endAfterFirst(s, sid, length, error, data) ==
    IF error # NoError
    THEN Readable_emitError(s, sid, error)
    ELSE Readable_pushNull(Readable_push(s, sid, data), sid)

\* mutant: a read that returns no bytes is ignored
ReadStream_onRead_ignoresEmpty(s, sid, length, error, data) ==
    IF error # NoError
    THEN Readable_emitError(s, sid, error)
    ELSE IF Len(data.bytes) = 0
         THEN s
         ELSE LET pushed == Readable_push(s, sid, data)
              IN  IF Len(data.bytes) < length THEN Readable_pushNull(pushed, sid) ELSE pushed

\* mutant: the end is signalled after a full block too (<= for <)
ReadStream_onRead_endOnFull(s, sid, length, error, data) ==
    IF error # NoError
    THEN Readable_emitError(s, sid, error)
    ELSE LET pushed == Readable_push(s, sid, data)
         IN  IF Len(data.bytes) <= length THEN Readable_pushNull(pushed, sid) ELSE pushed

\* mutant: a failed read is tried again
ReadStream_onRead_retries(s, sid, length, error, data) ==
    IF error # NoError
    THEN ReadStream_read(Readable_emitError(s, sid, error), sid, length)
    ELSE LET pushed == Readable_push(s, sid, data)
         IN  IF Len(data.bytes) < length THEN Readable_pushNull(pushed, sid) ELSE pushed

\* function(error, data) that _read passes to largeObject.read
ReadStream_onRead(s, sid, length, error, data) ==
    IF error # NoError
    THEN Readable_emitError(s, sid, error)
    ELSE LET pushed == Readable_push(s, sid, data)
         IN  IF Len(data.bytes) < length THEN Readable_pushNull(pushed, sid) ELSE pushed

\* ------------------------------------------------------------- WriteStream
\* new WriteStream(largeObject, bufferSize), with the inherited Writable state
WriteStream(largeObject, bufferSize) ==
    [largeObject |-> largeObject,
     highWaterMark |-> IF Falsy(bufferSize) THEN DefaultBufferSize ELSE bufferSize.v,
     writing |-> FALSE, wbuf |-> <<>>, ending |-> FALSE, finished |-> FALSE,
     errors |-> 0, accepted |-> <<>>, onFinish |-> <<>>]


\* mutant: _write does not wait for the write, write(chunk); callback()
WriteStream_write_ackEarly(s, sid, chunk, callback) ==
    IF ~chunk.isBuffer
    THEN Throw(s, IllegalArgument)
    ELSE [LargeObject_write(s, s.ws[sid].largeObject, chunk, NoCb)
             EXCEPT !.ws[sid].writing = FALSE]

\* mutant: _write without the check of the chunk
WriteStream_write_unchecked(s, sid, chunk, callback) ==
    LargeObject_write(s, s.ws[sid].largeObject, chunk, callback)

\* WriteStream.prototype._write(chunk, encoding, callback)
WriteStream_write(s, sid, chunk, callback) ==
    IF ~chunk.isBuffer
    THEN Throw(s, IllegalArgument)
    ELSE LargeObject_write(s, s.ws[sid].largeObject, chunk, callback)

\* Writable hands one chunk to _write; the callback is Writable's onwrite
Writable_doWrite(s, sid, chunk) ==
    WriteStream_write([s EXCEPT !.ws[sid].writing = TRUE], sid, chunk,
                      Cb("onwrite", sid, NoObj, 0, 0))

\* onwrite(er) of Writable, the callback given to _write: an error is emitted
\* and ends the stream, otherwise the next buffered chunk goes to _write
Writable_onwrite(s, sid, er) ==
    LET idle == [s EXCEPT !.ws[sid].writing = FALSE]
    IN  IF er # NoError
        THEN Logged([idle EXCEPT !.ws[sid].errors = @ + 1, !.ws[sid].wbuf = <<>>],
                    Ev("emit", "error", sid, er, 0))
        ELSE IF idle.ws[sid].wbuf # <<>>
             THEN Writable_doWrite([idle EXCEPT !.ws[sid].wbuf = Tail(@)], sid,
                                   Head(idle.ws[sid].wbuf))
             ELSE idle

\* stream.write(chunk) of Writable
Writable_write(s, sid, chunk) ==
    LET taken == [s EXCEPT !.ws[sid].accepted = Append(@, chunk)]
    IN  IF s.ws[sid].writing
        THEN [taken EXCEPT !.ws[sid].wbuf = Append(@, chunk)]
        ELSE Writable_doWrite(taken, sid, chunk)

\* ------------------------------------------------------ LargeObjectManager
LargeObjectManager_open(s, oid, mode, callback) ==
    IF Falsy(oid)
    THEN Throw(s, IllegalArgument)
    ELSE Query(s, "npg_lo_open", <<oid, mode>>, TRUE, callback)

\* mutant: the creation query is sent with mode WRITE
LargeObjectManager_create_writeOnly(s, callback) ==
    Query(s, "npg_lo_creat", <<WRITE>>, TRUE, callback)

LargeObjectManager_create(s, callback) ==
    Query(s, "npg_lo_creat", <<READWRITE>>, TRUE, callback)


\* mutant: unlink without the check of oid
LargeObjectManager_unlink_unchecked(s, oid, callback) ==
    Query(s, "npg_lo_unlink", <<oid>>, callback.k # "undefined", callback)

LargeObjectManager_unlink(s, oid, callback) ==
    IF Falsy(oid)
    THEN Throw(s, IllegalArgument)
    ELSE Query(s, "npg_lo_unlink", <<oid>>, callback.k # "undefined", callback)


\* mutant: the exception of open is caught and handed to the callback
LargeObjectManager_openAndReadableStream_caught(s, oid, bufferSize, c) ==
    IF Falsy(oid)
    THEN Deliver(s, c, IllegalArgument, 0, 0)
    ELSE LargeObjectManager_open(s, oid, READ, Cb("oars_open", c, NoObj, bufferSize, 0))

\* openAndReadableStream(oid, bufferSize, callback), callback that of call c
LargeObjectManager_openAndReadableStream(s, oid, bufferSize, c) ==
    LargeObjectManager_open(s, oid, READ, Cb("oars_open", c, NoObj, bufferSize, 0))

\* mutant: the size is measured by a seek to the end of the large object
OARS_onOpen_seeksEnd(s, c, bufferSize, err, obj) ==
    IF err # NoError
    THEN Deliver(s, c, err, 0, 0)
    ELSE LargeObject_seek(s, obj, 0, SEEK_END, Cb("oars_size", c, obj, bufferSize, 0))

\* mutant: the stream is delivered when the object is open, the size later
OARS_onOpen_early(s, c, bufferSize, err, obj) ==
    IF err # NoError
    THEN Deliver(s, c, err, 0, 0)
    ELSE LargeObject_size(
             Deliver([s EXCEPT !.rs = @ @@ (c :> ReadStream(obj, bufferSize))], c, NoError, 0, c),
             obj, Cb("oars_size", c, obj, bufferSize, 0))

\* function(err, obj) that openAndReadableStream passes to open
OARS_onOpen(s, c, bufferSize, err, obj) ==
    IF err # NoError
    THEN Deliver(s, c, err, 0, 0)
    ELSE LargeObject_size(s, obj, Cb("oars_size", c, obj, bufferSize, 0))


\* mutant: the 'end' listener is not registered
OARS_onSize_noListener(s, c, obj, bufferSize, err, size) ==
    IF err # NoError
    THEN Deliver(s, c, err, 0, 0)
    ELSE Deliver([s EXCEPT !.rs = @ @@ (c :> ReadStream(obj, bufferSize))], c, NoError, size, c)

\* mutant: when the size query fails, the handle is closed before the error
\* is handed on
OARS_onSize_closesOnError(s, c, obj, bufferSize, err, size) ==
    IF err # NoError
    THEN Deliver(LargeObject_close(s, obj, NoCb), c, err, 0, 0)
    ELSE LET stream == [ReadStream(obj, bufferSize) EXCEPT !.onEnd = Append(@, "oars_end")]
         IN  Deliver([s EXCEPT !.rs = @ @@ (c :> stream)], c, NoError, size, c)

\* mutant: the 'end' listener is registered after the callback has run
OARS_onSize_listensLate(s, c, obj, bufferSize, err, size) ==
    IF err # NoError
    THEN Deliver(s, c, err, 0, 0)
    ELSE LET made == [s EXCEPT !.rs = @ @@ (c :> ReadStream(obj, bufferSize))]
         IN  [Deliver(made, c, NoError, size, c) EXCEPT !.rs[c].onEnd = Append(@, "oars_end")]

\* function(err, size) that openAndReadableStream passes to obj.size
OARS_onSize(s, c, obj, bufferSize, err, size) ==
    IF err # NoError
    THEN Deliver(s, c, err, 0, 0)
    ELSE LET stream == [ReadStream(obj, bufferSize) EXCEPT !.onEnd = Append(@, "oars_end")]
         IN  Deliver([s EXCEPT !.rs = @ @@ (c :> stream)], c, NoError, size, c)

\* the 'end' listener of openAndReadableStream
OARS_onEnd(s, sid) ==
    LargeObject_close(s, s.rs[sid].largeObject, Cb("oars_close", sid, NoObj, 0, 0))


\* mutant: a failed close is emitted as an error of the stream
OARS_onClose_emitsError(s, sid, err) ==
    IF err # NoError THEN Readable_emitError(s, sid, err) ELSE s

\* function(err) that the 'end' listener passes to obj.close
OARS_onClose(s, sid, err) ==
    IF err # NoError THEN Logged(s, Ev("warn", "console.error", sid, err, 0)) ELSE s

\* createAndWritableStream(bufferSize, callback), callback that of call c
LargeObjectManager_createAndWritableStream(s, bufferSize, c) ==
    LargeObjectManager_create(s, Cb("caws_create", c, NoObj, bufferSize, 0))

\* mutant: the stream is opened on the large object with oid 1
CAWS_onCreate_opensFirst(s, c, bufferSize, err, oid) ==
    IF err # NoError
    THEN Deliver(s, c, err, 0, 0)
    ELSE LargeObjectManager_open(s, JsNum(1), WRITE, Cb("caws_open", c, NoObj, bufferSize, oid))

\* function(err, oid) that createAndWritableStream passes to create
CAWS_onCreate(s, c, bufferSize, err, oid) ==
    IF err # NoError
    THEN Deliver(s, c, err, 0, 0)
    ELSE LargeObjectManager_open(s, JsNum(oid), WRITE, Cb("caws_open", c, NoObj, bufferSize, oid))


\* mutant: when the open fails, the new large object is unlinked before the
\* error is handed on
CAWS_onOpen_unlinksOnError(s, c, bufferSize, oid, err, obj) ==
    IF err # NoError
    THEN Deliver(LargeObjectManager_unlink(s, JsNum(oid), NoCb), c, err, 0, 0)
    ELSE LET stream == [WriteStream(obj, bufferSize) EXCEPT !.onFinish = Append(@, "caws_finish")]
         IN  Deliver([s EXCEPT !.ws = @ @@ (c :> stream)], c, NoError, oid, c)

\* mutant: the close is issued when the stream is made, not at 'finish'
CAWS_onOpen_closesAtOnce(s, c, bufferSize, oid, err, obj) ==
    IF err # NoError
    THEN Deliver(s, c, err, 0, 0)
    ELSE LET stream == WriteStream(obj, bufferSize)
             made == LargeObject_close([s EXCEPT !.ws = @ @@ (c :> stream)], obj,
                                       Cb("caws_close", c, NoObj, 0, 0))
         IN  Deliver(made, c, NoError, oid, c)

\* function(err, obj) that createAndWritableStream passes to open
CAWS_onOpen(s, c, bufferSize, oid, err, obj) ==
    IF err # NoError
    THEN Deliver(s, c, err, 0, 0)
    ELSE LET stream == [WriteStream(obj, bufferSize) EXCEPT !.onFinish = Append(@, "caws_finish")]
         IN  Deliver([s EXCEPT !.ws = @ @@ (c :> stream)], c, NoError, oid, c)

\* the 'finish' listener of createAndWritableStream
CAWS_onFinish(s, sid) ==
    LargeObject_close(s, s.ws[sid].largeObject, Cb("caws_close", sid, NoObj, 0, 0))

\* function(err) that the 'finish' listener passes to obj.close
CAWS_onClose(s, sid, err) ==
    IF err # NoError THEN Logged(s, Ev("warn", "console.error", sid, err, 0)) ELSE s

\* the promise-returning duals
LargeObjectManager_openAsync(s, oid, mode, c) ==
    PromiseFromCallback(LargeObjectManager_open(s, oid, mode, CallerCb(c)), c)

LargeObjectManager_createAsync(s, c) ==
    PromiseFromCallback(LargeObjectManager_create(s, CallerCb(c)), c)

LargeObjectManager_unlinkAsync(s, oid, c) ==
    PromiseFromCallback(LargeObjectManager_unlink(s, oid, CallerCb(c)), c)

LargeObjectManager_openAndReadableStreamAsync(s, oid, bufferSize, c) ==
    PromiseFromCallback(
        LargeObjectManager_openAndReadableStream(WithTwoArgs(s, c), oid, bufferSize, c), c)

LargeObjectManager_createAndWritableStreamAsync(s, bufferSize, c) ==
    PromiseFromCallback(
        LargeObjectManager_createAndWritableStream(WithTwoArgs(s, c), bufferSize, c), c)

\* ------------------------------------------------------- calling callbacks
\* callback(err, a1, a2) for each function the library uses as a callback
Invoke(s, cb, err, a1, a2) ==
    CASE cb.k = "caller" -> Deliver(s, cb.c, err, a1, a2)
      [] cb.k = "oars_open" -> OARS_onOpen(s, cb.c, cb.n, err, a1)
      [] cb.k = "oars_size" -> OARS_onSize(s, cb.c, cb.obj, cb.n, err, a1)
      [] cb.k = "oars_close" -> OARS_onClose(s, cb.c, err)
      [] cb.k = "caws_create" -> CAWS_onCreate(s, cb.c, cb.n, err, a1)
      [] cb.k = "caws_open" -> CAWS_onOpen(s, cb.c, cb.n, cb.m, err, a1)
      [] cb.k = "caws_close" -> CAWS_onClose(s, cb.c, err)
      [] cb.k = "_read" -> ReadStream_onRead(s, cb.c, cb.n, err, a1)
      [] cb.k = "onwrite" -> Writable_onwrite(s, cb.c, err)
      [] OTHER -> Throw(s, TypeError)

\* function(err, result) that each operation passes to this._query
LargeObjectManager_open_cb(s, q, err, result) ==
    IF err # NoError
    THEN Invoke(s, q.cb, err, 0, 0)
    ELSE Invoke(s, q.cb, NoError, LargeObject(q.values[1], result), 0)

LargeObjectManager_create_cb(s, q, err, result) ==
    IF err # NoError THEN Invoke(s, q.cb, err, 0, 0) ELSE Invoke(s, q.cb, NoError, result, 0)

LargeObjectManager_unlink_cb(s, q, err, result) == Invoke(s, q.cb, err, 0, 0)

LargeObject_close_cb(s, q, err, result) == Invoke(s, q.cb, err, 0, 0)

\* mutant: a failed read is delivered as an empty buffer
LargeObject_read_cb_swallows(s, q, err, result) ==
    IF err # NoError
    THEN Invoke(s, q.cb, NoError, Buf(<<>>), 0)
    ELSE Invoke(s, q.cb, NoError, result, 0)

LargeObject_read_cb(s, q, err, result) ==
    IF err # NoError THEN Invoke(s, q.cb, err, 0, 0) ELSE Invoke(s, q.cb, NoError, result, 0)

LargeObject_write_cb(s, q, err, result) == Invoke(s, q.cb, err, 0, 0)

LargeObject_size_cb(s, q, err, result) ==
    IF err # NoError THEN Invoke(s, q.cb, err, 0, 0) ELSE Invoke(s, q.cb, NoError, result, 0)

LargeObject_seek_cb(s, q, err, result) ==
    IF err # NoError THEN Invoke(s, q.cb, err, 0, 0) ELSE Invoke(s, q.cb, NoError, result, 0)

\* mutant: no return after callback(err)
LargeObject_tell_cb_noReturn(s, q, err, result) ==
    IF err # NoError
    THEN Invoke(Invoke(s, q.cb, err, 0, 0), q.cb, NoError, result, 0)
    ELSE Invoke(s, q.cb, NoError, result, 0)

LargeObject_tell_cb(s, q, err, result) ==
    IF err # NoError THEN Invoke(s, q.cb, err, 0, 0) ELSE Invoke(s, q.cb, NoError, result, 0)

LargeObject_truncate_cb(s, q, err, result) == Invoke(s, q.cb, err, 0, 0)

\* the adapter calls the function it was given for query q, if any
Answered(s, q, err, result) ==
    CASE ~q.hasFn -> s
      [] q.name = "npg_lo_open" -> LargeObjectManager_open_cb(s, q, err, result)
      [] q.name = "npg_lo_creat" -> LargeObjectManager_create_cb(s, q, err, result)
      [] q.name = "npg_lo_unlink" -> LargeObjectManager_unlink_cb(s, q, err, result)
      [] q.name = "npg_lo_close" -> LargeObject_close_cb(s, q, err, result)
      [] q.name = "npg_loread" -> LargeObject_read_cb(s, q, err, result)
      [] q.name = "npg_lowrite" -> LargeObject_write_cb(s, q, err, result)
      [] q.name = "npg_size" -> LargeObject_size_cb(s, q, err, result)
      [] q.name = "npg_lo_lseek64" -> LargeObject_seek_cb(s, q, err, result)
      [] q.name = "npg_lo_tell64" -> LargeObject_tell_cb(s, q, err, result)
      [] q.name = "npg_lo_truncate64" -> LargeObject_truncate_cb(s, q, err, result)
      [] OTHER -> s

\* client.query(config, fn) of pg has its answer: fn is called if one was
\* given; without one, an error is emitted on the client object
pg_query(s, q, err, result) ==
    IF q.hasFn
    THEN Answered(s, q, err, result)
    ELSE IF err # NoError THEN Logged(s, Ev("client", "error", q.qid, err, 0)) ELSE s

\* callback(err, result) in pgPromiseAdapter: callback is what was given to
\* this._query, and calling undefined is a TypeError
pgPromiseAdapter_callback(s, q, err, result) ==
    IF q.hasFn THEN Answered(s, q, err, result) ELSE Throw(s, TypeError)

\* a promise that is rejected and that nobody holds
UnhandledRejection(r) ==
    IF Threw(r)
    THEN Logged([r EXCEPT !.thrown = NoError], Ev("unhandledRejection", r.thrown.e, 0, 0, 0))
    ELSE r

\* query(options, callback) of pgPromiseAdapter has its answer:
\* tx.query(options).then(rows => callback(null, {rows})).catch(error =>
\* callback(error)); the catch also sees what the callback threw in then
pgPromiseAdapter(s, q, err, result) ==
    LET then == IF err = NoError THEN pgPromiseAdapter_callback(s, q, NoError, result) ELSE s
        error == IF err # NoError THEN err ELSE then.thrown
        catch == IF error # NoError
                 THEN pgPromiseAdapter_callback([then EXCEPT !.thrown = NoError], q, error, 0)
                 ELSE then
    IN  UnhandledRejection(catch)

\* this._query, as the constructor of the manager has set it
Adapters == {"pg", "pgPromise"}

\* an exception nobody catches ends the turn of the event loop
Uncaught(r) ==
    IF Threw(r)
    THEN Logged([r EXCEPT !.thrown = NoError], Ev("uncaught", r.thrown.e, 0, 0, 0))
    ELSE r

\* the caller's listener: client.query('COMMIT', done), on the connection
\* that the manager uses
Caller_commit(s, sid) == Query(s, "COMMIT", <<>>, TRUE, Cb("done", sid, NoObj, 0, 0))

\* the listeners of an event, in the order they were registered
Listener(s, sid, l) ==
    CASE l = "oars_end" -> OARS_onEnd(s, sid)
      [] l = "caws_finish" -> CAWS_onFinish(s, sid)
      [] l = "caller_commit" -> Caller_commit(s, sid)
      [] OTHER -> s

RECURSIVE Emit(_, _, _)
Emit(s, sid, listeners) ==
    IF listeners = <<>> THEN s
    ELSE Emit(Listener(s, sid, Head(listeners)), sid, Tail(listeners))

\* ------------------------------------------------------------------ inputs
OidInputs == {JsNull, JsUndefined} \cup {JsNum(n) : n \in 0..MaxOid}
BufferSizes == {JsUndefined} \cup {JsNum(n) : n \in 0..MaxBuf}
Modes == {READ, WRITE, READWRITE}
Styles == {"callback", "promise"}
ChunkInputs == {Buf(<<>>), Buf(<<1>>), Buf(<<2, 3>>)}

\* the bytes of the large object that exists at the start
Content(n) == [i \in 1..n |-> i]

\* ----------------------------------------------------------------- actions
Init ==
    /\ \E n \in 0..MaxSize : objects = (1 :> Content(n))
    /\ fds = <<>>
    /\ queue = <<>>
    /\ nq = 0
    /\ log = <<>>
    /\ calls = <<>>
    /\ rs = <<>>
    /\ ws = <<>>
    /\ adapter \in Adapters

\* The adapter answers the oldest query: the server runs it (or it fails), and
\* the function given with the query runs.
Respond(ok) ==
    /\ queue # <<>>
    /\ LET q == Head(queue)
           x == Exec([St EXCEPT !.queue = Tail(@)], q, ok)
           answered == Logged(x.s, Ev("answer", q.name, q.qid, x.err, x.result))
       IN  Becomes(Uncaught(IF adapter = "pg"
                            THEN pg_query(answered, q, x.err, x.result)
                            ELSE pgPromiseAdapter(answered, q, x.err, x.result)))

\* the callback argument of a call of style "callback", and of a call that
\* leaves the optional callback out (style "none")
Optional(style, c) == IF style = "none" THEN NoCb ELSE CallerCb(c)

\* the caller calls open(oid, mode, callback) or openAsync(oid, mode)
Caller_open(oid, mode, style) ==
    LET c == Len(calls) + 1
        called == [St EXCEPT !.calls = Append(@, NewCall("open", style, <<oid, mode>>))]
    IN  Becomes(IF style = "promise"
                THEN LargeObjectManager_openAsync(called, oid, mode, c)
                ELSE CalledDirectly(LargeObjectManager_open(called, oid, mode, CallerCb(c)), c))

\* the caller calls unlink(oid, callback), unlink(oid) or unlinkAsync(oid)
Caller_unlink(oid, style) ==
    LET c == Len(calls) + 1
        called == [St EXCEPT !.calls = Append(@, NewCall("unlink", style, <<oid>>))]
    IN  Becomes(IF style = "promise"
                THEN LargeObjectManager_unlinkAsync(called, oid, c)
                ELSE CalledDirectly(LargeObjectManager_unlink(called, oid, Optional(style, c)), c))

\* the caller calls openAndReadableStream(oid, bufferSize, callback) or its dual
Caller_openAndReadableStream(oid, bufferSize, style) ==
    LET c == Len(calls) + 1
        called == [St EXCEPT !.calls =
                       Append(@, NewCall("openAndReadableStream", style, <<oid, bufferSize>>))]
    IN  Becomes(IF style = "promise"
                THEN LargeObjectManager_openAndReadableStreamAsync(called, oid, bufferSize, c)
                ELSE CalledDirectly(
                         LargeObjectManager_openAndReadableStream(called, oid, bufferSize, c), c))

\* the caller calls createAndWritableStream(bufferSize, callback) or its dual
Caller_createAndWritableStream(bufferSize, style) ==
    LET c == Len(calls) + 1
        called == [St EXCEPT !.calls =
                       Append(@, NewCall("createAndWritableStream", style, <<bufferSize>>))]
    IN  Becomes(IF style = "promise"
                THEN LargeObjectManager_createAndWritableStreamAsync(called, bufferSize, c)
                ELSE CalledDirectly(
                         LargeObjectManager_createAndWritableStream(called, bufferSize, c), c))

\* the caller calls create(callback) or createAsync()
Caller_create(style) ==
    LET c == Len(calls) + 1
        called == [St EXCEPT !.calls = Append(@, NewCall("create", style, <<>>))]
    IN  Becomes(IF style = "promise"
                THEN LargeObjectManager_createAsync(called, c)
                ELSE CalledDirectly(LargeObjectManager_create(called, CallerCb(c)), c))

\* call c has delivered a result to the caller, and the result
HasResult(c) ==
    IF calls[c].style = "promise"
    THEN calls[c].promise.state = "fulfilled"
    ELSE calls[c].cbs # <<>> /\ calls[c].cbs[1][1] = NoError
Result(c) == IF calls[c].style = "promise" THEN calls[c].promise.value ELSE calls[c].cbs[1][2]

\* the handles that open has delivered to the caller
Handles == {Result(c) : c \in {d \in DOMAIN calls : calls[d].op = "open" /\ HasResult(d)}}

\* the caller calls obj.read(length, callback) or obj.readAsync(length)
Caller_read(obj, length, style) ==
    LET c == Len(calls) + 1
        called == [St EXCEPT !.calls = Append(@, NewCall("read", style, <<obj, length>>))]
    IN  Becomes(IF style = "promise"
                THEN LargeObject_readAsync(called, obj, length, c)
                ELSE CalledDirectly(LargeObject_read(called, obj, length, CallerCb(c)), c))

\* the caller calls obj.write(buffer, callback) or obj.writeAsync(buffer)
Caller_write(obj, buffer, style) ==
    LET c == Len(calls) + 1
        called == [St EXCEPT !.calls = Append(@, NewCall("write", style, <<obj, buffer>>))]
    IN  Becomes(IF style = "promise"
                THEN LargeObject_writeAsync(called, obj, buffer, c)
                ELSE CalledDirectly(LargeObject_write(called, obj, buffer, Optional(style, c)), c))

\* the caller calls obj.seek(position, ref, callback) or obj.seekAsync(position, ref)
Caller_seek(obj, position, ref, style) ==
    LET c == Len(calls) + 1
        called == [St EXCEPT !.calls = Append(@, NewCall("seek", style, <<obj, position, ref>>))]
    IN  Becomes(IF style = "promise"
                THEN LargeObject_seekAsync(called, obj, position, ref, c)
                ELSE CalledDirectly(LargeObject_seek(called, obj, position, ref, Optional(style, c)), c))

\* the caller calls obj.tell(callback) or obj.tellAsync()
Caller_tell(obj, style) ==
    LET c == Len(calls) + 1
        called == [St EXCEPT !.calls = Append(@, NewCall("tell", style, <<obj>>))]
    IN  Becomes(IF style = "promise"
                THEN LargeObject_tellAsync(called, obj, c)
                ELSE CalledDirectly(LargeObject_tell(called, obj, CallerCb(c)), c))

\* the caller calls obj.size(callback) or obj.sizeAsync()
Caller_size(obj, style) ==
    LET c == Len(calls) + 1
        called == [St EXCEPT !.calls = Append(@, NewCall("size", style, <<obj>>))]
    IN  Becomes(IF style = "promise"
                THEN LargeObject_sizeAsync(called, obj, c)
                ELSE CalledDirectly(LargeObject_size(called, obj, CallerCb(c)), c))

\* the caller calls obj.truncate(length, callback) or obj.truncateAsync(length)
Caller_truncate(obj, length, style) ==
    LET c == Len(calls) + 1
        called == [St EXCEPT !.calls = Append(@, NewCall("truncate", style, <<obj, length>>))]
    IN  Becomes(IF style = "promise"
                THEN LargeObject_truncateAsync(called, obj, length, c)
                ELSE CalledDirectly(LargeObject_truncate(called, obj, length, Optional(style, c)), c))

\* the caller calls obj.close(callback) or obj.closeAsync()
Caller_close(obj, style) ==
    LET c == Len(calls) + 1
        called == [St EXCEPT !.calls = Append(@, NewCall("close", style, <<obj>>))]
    IN  Becomes(IF style = "promise"
                THEN LargeObject_closeAsync(called, obj, c)
                ELSE CalledDirectly(LargeObject_close(called, obj, Optional(style, c)), c))

\* Readable asks for more: _read(highWaterMark), unless a _read is pending or
\* push(null) was called
Readable_read(sid) ==
    /\ sid \in DOMAIN rs
    /\ ~rs[sid].reading
    /\ ~rs[sid].ended
    /\ Becomes(Uncaught(ReadStream_read([St EXCEPT !.rs[sid].reading = TRUE], sid,
                                        rs[sid].highWaterMark)))

\* the consumer takes the oldest buffered chunk ('data')
Readable_data(sid) ==
    /\ sid \in DOMAIN rs
    /\ rs[sid].buffer # <<>>
    /\ Becomes(Logged([St EXCEPT !.rs[sid].buffer = Tail(@),
                                 !.rs[sid].emitted = Append(@, Head(rs[sid].buffer))],
                      Ev("emit", "data", sid, Head(rs[sid].buffer), 0)))

\* 'end': push(null) was called and the consumer has taken every chunk
Readable_end(sid) ==
    /\ sid \in DOMAIN rs
    /\ rs[sid].ended
    /\ rs[sid].buffer = <<>>
    /\ ~rs[sid].endEmitted
    /\ Becomes(Uncaught(Emit(Logged([St EXCEPT !.rs[sid].endEmitted = TRUE],
                                    Ev("emit", "end", sid, 0, 0)),
                             sid, rs[sid].onEnd)))

\* the producer calls stream.write(chunk)
Producer_write(sid, chunk) ==
    /\ sid \in DOMAIN ws
    /\ ~ws[sid].ending
    /\ ws[sid].errors = 0
    /\ Len(ws[sid].accepted) < MaxChunks
    /\ Becomes(Uncaught(Writable_write(St, sid, chunk)))

\* the producer calls stream.end()
Producer_end(sid) ==
    /\ sid \in DOMAIN ws
    /\ ~ws[sid].ending
    /\ Becomes([St EXCEPT !.ws[sid].ending = TRUE])

\* 'finish': end() was called, every chunk was written and none failed
Writable_finish(sid) ==
    /\ sid \in DOMAIN ws
    /\ ws[sid].ending
    /\ ~ws[sid].writing
    /\ ws[sid].wbuf = <<>>
    /\ ws[sid].errors = 0
    /\ ~ws[sid].finished
    /\ Becomes(Uncaught(Emit(Logged([St EXCEPT !.ws[sid].finished = TRUE],
                                    Ev("emit", "finish", sid, 0, 0)),
                             sid, ws[sid].onFinish)))

\* a caller calls stream._write(chunk, encoding, callback) itself
Caller__write(sid, chunk) ==
    LET c == Len(calls) + 1
        called == [St EXCEPT !.calls = Append(@, NewCall("_write", "callback", <<sid, chunk>>))]
    IN  /\ sid \in DOMAIN ws
        /\ Becomes(CalledDirectly(WriteStream_write(called, sid, chunk, CallerCb(c)), c))

\* a caller calls stream._read(length) itself
Caller__read(sid, length) ==
    LET c == Len(calls) + 1
        called == [St EXCEPT !.calls = Append(@, NewCall("_read", "callback", <<sid, length>>))]
    IN  /\ sid \in DOMAIN rs
        /\ Becomes(CalledDirectly(ReadStream_read(called, sid, length), c))

\* the promise of call c is fulfilled with a stream, and the caller's
\* function given to then() registers its listener on the stream
Caller_then(c) ==
    /\ c \in DOMAIN calls
    /\ calls[c].style = "promise"
    /\ calls[c].promise.state = "fulfilled"
    /\ calls[c].twoArgs
    /\ ~calls[c].listening
    /\ Becomes(Caller_on([St EXCEPT !.calls[c].listening = TRUE], calls[c].promise.value[2]))

\* the functions and the `this` objects handed to promiseFromCallback
FnInputs ==
    {fn \in [kind : {"throws", "calls", "callsThenThrows", "callsTwice"},
             error : {NoError, Error("foo"), Error("bar")},
             arg1 : {0, 1234}, arg2 : {0, 4567},
             second : {NoError, Error("late")}] :
        /\ fn.kind = "throws" => fn.error # NoError /\ fn.arg1 = 0 /\ fn.arg2 = 0
        /\ fn.kind # "callsTwice" => fn.second = NoError}
SelfInputs == {"myThisObject", "manager", "largeObject"}

\* the caller calls promiseFromCallback(fn, self, {twoArgs: twoArgs})
Caller_promiseFromCallback(fn, self, twoArgs) ==
    LET c == Len(calls) + 1
        called == [St EXCEPT !.calls =
                       Append(@, NewCall("promiseFromCallback", "promise", <<fn, self, twoArgs>>))]
    IN  Becomes(CalledDirectly(promiseFromCallback(called, fn, self, twoArgs, c), c))

\* ---------------------------------------------------------- specifications
\* calls of the manager, in any order and without waiting
NextManager ==
    \/ \E oid \in OidInputs, mode \in Modes, style \in Styles :
            Len(calls) < MaxCalls /\ Caller_open(oid, mode, style)
    \/ \E oid \in OidInputs, style \in Styles :
            Len(calls) < MaxCalls /\ Caller_unlink(oid, style)
    \/ \E oid \in OidInputs, bufferSize \in BufferSizes, style \in Styles :
            Len(calls) < MaxCalls /\ Caller_openAndReadableStream(oid, bufferSize, style)
    \/ \E ok \in BOOLEAN : Respond(ok)

SpecManager == Init /\ [][NextManager]_vars

\* one openAndReadableStream or one createAndWritableStream, and the stream
\* it delivers with its consumer or producer
NextStreams ==
    \/ \E oid \in OidInputs, bufferSize \in BufferSizes, style \in Styles :
            calls = <<>> /\ Caller_openAndReadableStream(oid, bufferSize, style)
    \/ \E bufferSize \in BufferSizes, style \in Styles :
            calls = <<>> /\ Caller_createAndWritableStream(bufferSize, style)
    \/ \E ok \in BOOLEAN : Respond(ok)
    \/ \E sid \in DOMAIN rs : Readable_read(sid)
    \/ \E sid \in DOMAIN rs : Readable_data(sid)
    \/ \E sid \in DOMAIN rs : Readable_end(sid)
    \/ \E sid \in DOMAIN ws, chunk \in ChunkInputs : Producer_write(sid, chunk)
    \/ \E sid \in DOMAIN ws : Producer_end(sid)
    \/ \E sid \in DOMAIN ws : Writable_finish(sid)

SpecStreams == Init /\ [][NextStreams]_vars

\* calls of promiseFromCallback with functions as those of its tests
NextPromise ==
    \E fn \in FnInputs, self \in SelfInputs, twoArgs \in BOOLEAN :
        Len(calls) < MaxCalls /\ Caller_promiseFromCallback(fn, self, twoArgs)

SpecPromise == Init /\ [][NextPromise]_vars

\* where a caller seeks to, and how many bytes a caller reads
SeekInputs ==
    {<<n, SEEK_SET>> : n \in 0..MaxSize} \cup {<<-k, SEEK_END>> : k \in 0..MaxSize}
ReadLengths == {1, MaxSize, MaxSize + 1}

\* call c has failed: it threw, or it delivered an error
Failed(c) ==
    \/ calls[c].thrown # NoError
    \/ calls[c].promise.state = "rejected"
    \/ \E i \in DOMAIN calls[c].cbs : calls[c].cbs[i][1] # NoError

\* the caller has the answer to every call, and none has failed
Awaited == queue = <<>> /\ \A c \in DOMAIN calls : ~Failed(c)

\* ... and the caller may use the handle once more
Ready == Awaited /\ Len(calls) <= MaxOps

\* the caller uses callbacks in every call of a run, or promises in every call
SameStyle(style) == calls # <<>> => style = calls[1].style

\* the operations called on handle obj so far
OpsOn(obj) == {c \in DOMAIN calls : calls[c].op # "open" /\ calls[c].args[1] = obj}

\* One handle on the large object, opened for reading by a caller who waits
\* for the answer to each call before the next and stops at the first failure:
\* a seek as the first operation on the handle, then tell, size and read.
NextHandle ==
    \/ \E style \in Styles : calls = <<>> /\ Caller_open(JsNum(1), READ, style)
    \/ \E obj \in Handles, to \in SeekInputs, style \in Styles :
            Ready /\ SameStyle(style) /\ OpsOn(obj) = {} /\ Caller_seek(obj, to[1], to[2], style)
    \/ \E obj \in Handles, style \in Styles :
            Ready /\ SameStyle(style) /\ Caller_tell(obj, style)
    \/ \E obj \in Handles, style \in Styles :
            Ready /\ SameStyle(style) /\ Caller_size(obj, style)
    \/ \E obj \in Handles, length \in ReadLengths, style \in Styles :
            Ready /\ SameStyle(style) /\ Caller_read(obj, length, style)
    \/ \E ok \in BOOLEAN : Respond(ok)

SpecHandle == Init /\ [][NextHandle]_vars

\* the byte sequences a caller writes
Bytes == {7, 9}
ByteSeqs == UNION {[1..n -> Bytes] : n \in 0..MaxSize}

\* the caller is at step n of the round trip: n calls made, all answered well
Step(n) == Len(calls) = n /\ Awaited

\* The round trip of testCreateAndWrite and testRead: create, open for
\* writing, write, close, open for reading, read as many bytes as were
\* written, size; each call after the answer to the one before.
NextRoundTrip ==
    \/ \E style \in Styles : calls = <<>> /\ Caller_create(style)
    \/ \E style \in Styles :
            Step(1) /\ SameStyle(style) /\ Caller_open(JsNum(Result(1)), WRITE, style)
    \/ \E buffer \in ByteSeqs, style \in Styles :
            Step(2) /\ SameStyle(style) /\ Caller_write(Result(2), Buf(buffer), style)
    \/ \E style \in Styles :
            Step(3) /\ SameStyle(style) /\ Caller_close(Result(2), style)
    \/ \E style \in Styles :
            Step(4) /\ SameStyle(style) /\ Caller_open(JsNum(Result(1)), READ, style)
    \/ \E style \in Styles :
            Step(5) /\ SameStyle(style)
            /\ Caller_read(Result(5), Len(calls[3].args[2].bytes), style)
    \/ \E style \in Styles :
            Step(6) /\ SameStyle(style) /\ Caller_size(Result(5), style)
    \/ \E ok \in BOOLEAN : Respond(ok)

SpecRoundTrip == Init /\ [][NextRoundTrip]_vars

\* the first value that call c has delivered: the oid of
\* createAndWritableStream, the size of openAndReadableStream
FirstResult(c) == IF calls[c].twoArgs THEN Result(c)[1] ELSE Result(c)

\* The round trip of testWriteStream and testReadStream: a producer writes
\* chunks to the stream of createAndWritableStream and ends it; after
\* 'finish', and with every query answered, the caller reads the object back
\* through openAndReadableStream and pipes the stream, which takes each chunk
\* before the next _read.
NextStreamRoundTrip ==
    \/ \E style \in Styles :
            calls = <<>> /\ Caller_createAndWritableStream(JsUndefined, style)
    \/ \E sid \in DOMAIN ws, chunk \in ChunkInputs : Producer_write(sid, chunk)
    \/ \E sid \in DOMAIN ws : Producer_end(sid)
    \/ \E sid \in DOMAIN ws : Writable_finish(sid)
    \/ \E bufferSize \in BufferSizes, style \in Styles :
            /\ Step(1) /\ 1 \in DOMAIN ws /\ ws[1].finished
            /\ SameStyle(style)
            /\ Caller_openAndReadableStream(JsNum(FirstResult(1)), bufferSize, style)
    \/ \E sid \in DOMAIN rs : rs[sid].buffer = <<>> /\ Readable_read(sid)
    \/ \E sid \in DOMAIN rs : Readable_data(sid)
    \/ \E sid \in DOMAIN rs : Readable_end(sid)
    \/ \E ok \in BOOLEAN : Respond(ok)

SpecStreamRoundTrip == Init /\ [][NextStreamRoundTrip]_vars

\* the lengths a caller truncates to
TruncateLengths == {0, 1, MaxSize + 1}

\* the caller has the answer to every call, none has failed, and the caller
\* may call once more
ReadyOps == Awaited /\ Len(calls) <= MaxCalls

\* Every operation of the manager and of the handles it delivers, by a caller
\* who waits for the answer to each call before the next and stops at the
\* first failure.
NextOps ==
    \/ \E oid \in OidInputs, mode \in Modes, style \in Styles :
            ReadyOps /\ SameStyle(style) /\ Caller_open(oid, mode, style)
    \/ \E style \in Styles : ReadyOps /\ SameStyle(style) /\ Caller_create(style)
    \/ \E oid \in OidInputs, style \in Styles :
            ReadyOps /\ SameStyle(style) /\ Caller_unlink(oid, style)
    \/ \E obj \in Handles, length \in ReadLengths, style \in Styles :
            ReadyOps /\ SameStyle(style) /\ Caller_read(obj, length, style)
    \/ \E obj \in Handles, buffer \in ChunkInputs, style \in Styles :
            ReadyOps /\ SameStyle(style) /\ Caller_write(obj, buffer, style)
    \/ \E obj \in Handles, to \in SeekInputs, style \in Styles :
            ReadyOps /\ SameStyle(style) /\ Caller_seek(obj, to[1], to[2], style)
    \/ \E obj \in Handles, style \in Styles :
            ReadyOps /\ SameStyle(style) /\ Caller_tell(obj, style)
    \/ \E obj \in Handles, style \in Styles :
            ReadyOps /\ SameStyle(style) /\ Caller_size(obj, style)
    \/ \E obj \in Handles, length \in TruncateLengths, style \in Styles :
            ReadyOps /\ SameStyle(style) /\ Caller_truncate(obj, length, style)
    \/ \E obj \in Handles, style \in Styles :
            ReadyOps /\ SameStyle(style) /\ Caller_close(obj, style)
    \/ \E ok \in BOOLEAN : Respond(ok)

SpecOps == Init /\ [][NextOps]_vars

\* callback, promise, or no callback where the callback is optional
CallStyles == Styles \cup {"none"}

\* calls of unlink with and without a callback, without waiting
NextUnlink ==
    \/ \E oid \in OidInputs, style \in CallStyles :
            Len(calls) <= MaxCalls /\ Caller_unlink(oid, style)
    \/ \E ok \in BOOLEAN : Respond(ok)

SpecUnlink == Init /\ [][NextUnlink]_vars

\* where a caller who does not wait seeks to: inside the object and past its end
PipelineSeeks == {<<1, SEEK_SET>>, <<MaxSize + 1, SEEK_SET>>}

\* the caller has a handle and has not seen a call throw
Pipelining ==
    /\ Handles # {}
    /\ Len(calls) <= MaxCalls + 1
    /\ \A c \in DOMAIN calls : calls[c].thrown = NoError

\* One handle on the large object, opened for reading; then seek, tell and
\* read on it without waiting for the answers, as in the example of the
\* README, the seek with or without a callback.
NextPipeline ==
    \/ \E style \in Styles : calls = <<>> /\ Caller_open(JsNum(1), READ, style)
    \/ \E obj \in Handles, to \in PipelineSeeks, style \in CallStyles :
            /\ Pipelining /\ (style = "none" \/ SameStyle(style))
            /\ Caller_seek(obj, to[1], to[2], style)
    \/ \E obj \in Handles, style \in Styles :
            Pipelining /\ SameStyle(style) /\ Caller_tell(obj, style)
    \/ \E obj \in Handles, style \in Styles :
            Pipelining /\ SameStyle(style) /\ Caller_read(obj, 1, style)
    \/ \E ok \in BOOLEAN : Respond(ok)

SpecPipeline == Init /\ [][NextPipeline]_vars

\* the caller has the answer to every call, none has failed, both handles are
\* open on the caller's side, and the caller may use one of them once more
ReadyHandles == Awaited /\ Cardinality(Handles) = 2 /\ Len(calls) <= MaxCalls + 2

\* Two handles on the large object, both opened with READWRITE in one
\* transaction, by a caller who passes callbacks, waits for the answer to each
\* call before the next and stops at the first failure: read, write, seek,
\* truncate and close on either handle.
NextHandles ==
    \/ Awaited /\ Len(calls) < 2 /\ Caller_open(JsNum(1), READWRITE, "callback")
    \/ \E obj \in Handles, length \in ReadLengths :
            ReadyHandles /\ Caller_read(obj, length, "callback")
    \/ \E obj \in Handles, buffer \in ChunkInputs :
            ReadyHandles /\ Caller_write(obj, buffer, "callback")
    \/ \E obj \in Handles, to \in PipelineSeeks :
            ReadyHandles /\ Caller_seek(obj, to[1], to[2], "callback")
    \/ \E obj \in Handles, length \in TruncateLengths :
            ReadyHandles /\ Caller_truncate(obj, length, "callback")
    \/ \E obj \in Handles :
            ReadyHandles /\ Caller_close(obj, "callback")
    \/ \E ok \in BOOLEAN : Respond(ok)

SpecHandles == Init /\ [][NextHandles]_vars

\* One handle on the large object, opened in any mode by a caller who waits
\* for the answer to each call before the next and stops at the first failure:
\* seek to a position, tell, size, then a write or a truncate, then tell and
\* size again, and the whole object read from its start.
NextModify ==
    \/ \E mode \in Modes, style \in Styles :
            calls = <<>> /\ Caller_open(JsNum(1), mode, style)
    \/ \E position \in 0..MaxSize, style \in Styles :
            Step(1) /\ SameStyle(style) /\ Caller_seek(Result(1), position, SEEK_SET, style)
    \/ \E style \in Styles : Step(2) /\ SameStyle(style) /\ Caller_tell(Result(1), style)
    \/ \E style \in Styles : Step(3) /\ SameStyle(style) /\ Caller_size(Result(1), style)
    \/ \E buffer \in ChunkInputs, style \in Styles :
            Step(4) /\ SameStyle(style) /\ Caller_write(Result(1), buffer, style)
    \/ \E length \in TruncateLengths, style \in Styles :
            Step(4) /\ SameStyle(style) /\ Caller_truncate(Result(1), length, style)
    \/ \E style \in Styles : Step(5) /\ SameStyle(style) /\ Caller_tell(Result(1), style)
    \/ \E style \in Styles : Step(6) /\ SameStyle(style) /\ Caller_size(Result(1), style)
    \/ \E style \in Styles :
            Step(7) /\ SameStyle(style) /\ Caller_seek(Result(1), 0, SEEK_SET, style)
    \/ \E style \in Styles :
            Step(8) /\ SameStyle(style) /\ Caller_read(Result(1), MaxSize + MaxSize, style)
    \/ \E ok \in BOOLEAN : Respond(ok)

SpecModify == Init /\ [][NextModify]_vars

\* what a caller hands to _write: Buffers, and strings, which are no Buffers
DirectChunks == ChunkInputs \cup {Str(<<>>), Str(<<1>>)}

\* The stream of createAndWritableStream, and a caller who calls its _write
\* with Buffers and with strings, without waiting.
NextWriteDirect ==
    \/ \E bufferSize \in BufferSizes, style \in Styles :
            calls = <<>> /\ Caller_createAndWritableStream(bufferSize, style)
    \/ \E sid \in DOMAIN ws, chunk \in DirectChunks :
            Len(calls) <= MaxCalls + 1 /\ Caller__write(sid, chunk)
    \/ \E ok \in BOOLEAN : Respond(ok)

SpecWriteDirect == Init /\ [][NextWriteDirect]_vars

\* the lengths a caller hands to _read
DirectLengths == {-1, 0, 1}

\* The stream of openAndReadableStream, and a caller who calls its _read with
\* lengths below, at and above zero, without waiting.
NextReadDirect ==
    \/ \E bufferSize \in BufferSizes, style \in Styles :
            calls = <<>> /\ Caller_openAndReadableStream(JsNum(1), bufferSize, style)
    \/ \E sid \in DOMAIN rs, length \in DirectLengths :
            Len(calls) <= MaxCalls + 1 /\ Caller__read(sid, length)
    \/ \E ok \in BOOLEAN : Respond(ok)

SpecReadDirect == Init /\ [][NextReadDirect]_vars

\* One openAndReadableStream of the large object and the consumer of its
\* stream; nobody writes.
NextReadStream ==
    \/ \E bufferSize \in BufferSizes, style \in Styles :
            calls = <<>> /\ Caller_openAndReadableStream(JsNum(1), bufferSize, style)
    \/ \E ok \in BOOLEAN : Respond(ok)
    \/ \E sid \in DOMAIN rs : Readable_read(sid)
    \/ \E sid \in DOMAIN rs : Readable_data(sid)
    \/ \E sid \in DOMAIN rs : Readable_end(sid)

\* every query gets its answer, and the consumer of the stream keeps pulling
\* and taking what there is
FairReadStream ==
    /\ WF_vars(\E ok \in BOOLEAN : Respond(ok))
    /\ WF_vars(Readable_read(1))
    /\ WF_vars(Readable_data(1))
    /\ WF_vars(Readable_end(1))

SpecReadStreamFair == Init /\ [][NextReadStream]_vars /\ FairReadStream

\* the same, the consumer pulling or not as it pleases
SpecReadStream == Init /\ [][NextReadStream]_vars

\* the caller has the answer to every call made on the handle of call 1,
\* failures included, and may call once more
Settled == Len(calls) >= 2 /\ Len(calls) <= MaxCalls + 1 /\ queue = <<>>

\* the caller passes a callback or leaves it out, or uses promises throughout
Again(style) == style = "none" \/ SameStyle(style)

\* One handle on the large object that the caller closes and then goes on
\* using: after close() every operation of the handle, close() included,
\* each call after the answer to the one before.
NextAfterClose ==
    \/ \E mode \in Modes, style \in Styles :
            calls = <<>> /\ Caller_open(JsNum(1), mode, style)
    \/ \E style \in CallStyles :
            Step(1) /\ Again(style) /\ Caller_close(Result(1), style)
    \/ \E style \in CallStyles :
            Settled /\ Again(style) /\ Caller_close(Result(1), style)
    \/ \E style \in Styles :
            Settled /\ SameStyle(style) /\ Caller_read(Result(1), 1, style)
    \/ \E style \in CallStyles :
            Settled /\ Again(style) /\ Caller_write(Result(1), Buf(<<1>>), style)
    \/ \E style \in CallStyles :
            Settled /\ Again(style) /\ Caller_seek(Result(1), 0, SEEK_SET, style)
    \/ \E style \in Styles :
            Settled /\ SameStyle(style) /\ Caller_tell(Result(1), style)
    \/ \E style \in Styles :
            Settled /\ SameStyle(style) /\ Caller_size(Result(1), style)
    \/ \E style \in CallStyles :
            Settled /\ Again(style) /\ Caller_truncate(Result(1), 0, style)
    \/ \E ok \in BOOLEAN : Respond(ok)

SpecAfterClose == Init /\ [][NextAfterClose]_vars

\* a callback, a callback that throws when it is handed a result, or a promise
AdapterStyles == {"callback", "throwing", "promise"}

\* Calls of the manager, each one query or the queries of
\* openAndReadableStream, by a caller whose callback may throw.
NextAdapter ==
    \/ \E oid \in OidInputs, mode \in Modes, style \in AdapterStyles :
            Len(calls) < MaxCalls /\ Caller_open(oid, mode, style)
    \/ \E style \in AdapterStyles :
            Len(calls) < MaxCalls /\ Caller_create(style)
    \/ \E oid \in OidInputs, style \in AdapterStyles :
            Len(calls) < MaxCalls /\ Caller_unlink(oid, style)
    \/ \E oid \in OidInputs, style \in AdapterStyles :
            Len(calls) < MaxCalls /\ Caller_openAndReadableStream(oid, JsUndefined, style)
    \/ \E ok \in BOOLEAN : Respond(ok)

SpecAdapter == Init /\ [][NextAdapter]_vars

\* how a caller who commits at the end of a stream calls the manager
CommitStyles == {"listening", "promise"}

\* One openAndReadableStream or one createAndWritableStream by a caller who
\* registers a listener on the stream delivered, for 'end' or for 'finish',
\* that commits the transaction; the consumer or producer of the stream.
NextCommit ==
    \/ \E bufferSize \in BufferSizes, style \in CommitStyles :
            calls = <<>> /\ Caller_openAndReadableStream(JsNum(1), bufferSize, style)
    \/ \E bufferSize \in BufferSizes, style \in CommitStyles :
            calls = <<>> /\ Caller_createAndWritableStream(bufferSize, style)
    \/ \E c \in DOMAIN calls : Caller_then(c)
    \/ \E ok \in BOOLEAN : Respond(ok)
    \/ \E sid \in DOMAIN rs : Readable_read(sid)
    \/ \E sid \in DOMAIN rs : Readable_data(sid)
    \/ \E sid \in DOMAIN rs : Readable_end(sid)
    \/ \E sid \in DOMAIN ws, chunk \in ChunkInputs : Producer_write(sid, chunk)
    \/ \E sid \in DOMAIN ws : Producer_end(sid)
    \/ \E sid \in DOMAIN ws : Writable_finish(sid)

SpecCommit == Init /\ [][NextCommit]_vars

\* ------------------------------------------------------- reading the history
IsIssue(i, name) == log[i].t = "issue" /\ log[i].name = name
IsAnswer(i, name) == log[i].t = "answer" /\ log[i].name = name

\* the queries named name issued on the descriptor of handle obj
IssuedOn(name, obj) == {i \in DOMAIN log : IsIssue(i, name) /\ log[i].x[1] = obj.fd}

\* where query qid was issued, and where it was answered (at most one place)
IssueOf(qid) == CHOOSE i \in DOMAIN log : log[i].t = "issue" /\ log[i].id = qid
AnswersTo(qid) == {i \in DOMAIN log : log[i].t = "answer" /\ log[i].id = qid}

\* the queries named name on the descriptor of handle obj that are in flight
InFlight(name, obj) ==
    {i \in DOMAIN queue : queue[i].name = name /\ queue[i].values[1] = obj.fd}

\* the answers to reads of a ReadStream that hold fewer bytes than were asked for
ShortReads ==
    {i \in DOMAIN log :
        /\ IsAnswer(i, "npg_loread")
        /\ log[i].x = NoError
        /\ log[IssueOf(log[i].id)].y.k = "_read"
        /\ Len(log[i].y.bytes) < log[IssueOf(log[i].id)].x[2]}

\* the chunks of the write queries on the descriptor of obj, in the order issued
RECURSIVE WrittenFrom(_, _)
WrittenFrom(i, obj) ==
    IF i > Len(log) THEN <<>>
    ELSE IF IsIssue(i, "npg_lowrite") /\ log[i].x[1] = obj.fd
         THEN <<log[i].x[2]>> \o WrittenFrom(i + 1, obj)
         ELSE WrittenFrom(i + 1, obj)

Written(obj) == WrittenFrom(1, obj)

RECURSIVE BytesOf(_)
BytesOf(chunks) ==
    IF chunks = <<>> THEN <<>> ELSE Head(chunks).bytes \o BytesOf(Tail(chunks))

IsSuffix(a, b) == Len(a) <= Len(b) /\ a = SubSeq(b, Len(b) - Len(a) + 1, Len(b))

\* -------------------------------------------------------------------- C1
\* C1: when a read of a ReadStream is answered with fewer bytes than the pull
\* asked for (zero included), the stream pushes exactly those bytes and then
\* push(null) in the same turn, and it never issues a read query afterwards.
C1_ShortReadEndsStream ==
    \A i \in ShortReads :
        LET sid == log[IssueOf(log[i].id)].y.c
            data == log[i].y.bytes
        IN  /\ i + 2 <= Len(log)
            /\ log[i + 1].t = "push" /\ log[i + 1].name = "data"
            /\ log[i + 1].id = sid /\ log[i + 1].x = data
            /\ log[i + 2].t = "push" /\ log[i + 2].name = "null" /\ log[i + 2].id = sid
            /\ rs[sid].ended
            /\ IsSuffix(data, Flatten(rs[sid].emitted \o rs[sid].buffer))
            /\ \A j \in (i + 1)..Len(log) : ~IsIssue(j, "npg_loread")

\* a short read that held bytes came after a full one, and the stream has ended
C1_Witness ==
    \E i \in ShortReads :
        /\ Len(log[i].y.bytes) > 0
        /\ Cardinality(IssuedOn("npg_loread", rs[1].largeObject)) >= 2
        /\ rs[1].endEmitted

\* -------------------------------------------------------------------- C2
\* C2: a ReadStream has at most one read query in flight, and between two read
\* queries of one stream the first was answered and its bytes were pushed.
C2_OneReadInFlight ==
    \A sid \in DOMAIN rs :
        /\ Cardinality(InFlight("npg_loread", rs[sid].largeObject)) <= 1
        /\ \A i, j \in IssuedOn("npg_loread", rs[sid].largeObject) :
              i < j => \E k \in (i + 1)..(j - 2) :
                          /\ IsAnswer(k, "npg_loread") /\ log[k].id = log[i].id
                          /\ log[k].x = NoError
                          /\ log[k + 1].t = "push" /\ log[k + 1].name = "data"

\* a second read is in flight after the first was answered
C2_Witness ==
    /\ 1 \in DOMAIN rs
    /\ Cardinality(IssuedOn("npg_loread", rs[1].largeObject)) >= 2
    /\ Cardinality(InFlight("npg_loread", rs[1].largeObject)) = 1

\* -------------------------------------------------------------------- C3
\* C3: a WriteStream has at most one write query in flight, and between two
\* write queries of one stream the first was answered (its callback invoked).
C3_OneWriteInFlight ==
    \A sid \in DOMAIN ws :
        /\ Cardinality(InFlight("npg_lowrite", ws[sid].largeObject)) <= 1
        /\ (Cardinality(InFlight("npg_lowrite", ws[sid].largeObject)) = 1) = ws[sid].writing
        /\ \A i, j \in IssuedOn("npg_lowrite", ws[sid].largeObject) :
              i < j => \E k \in (i + 1)..(j - 1) :
                          IsAnswer(k, "npg_lowrite") /\ log[k].id = log[i].id

\* the producer has written three chunks while the first write was in flight,
\* and the second write is in flight now
C3_Witness ==
    /\ 1 \in DOMAIN ws
    /\ Len(ws[1].accepted) = 3
    /\ Len(ws[1].wbuf) = 1
    /\ Cardinality(IssuedOn("npg_lowrite", ws[1].largeObject)) = 2
    /\ Cardinality(InFlight("npg_lowrite", ws[1].largeObject)) = 1

\* -------------------------------------------------------------------- C4
\* C4: the write queries of a WriteStream carry, in order and unchanged, a
\* prefix of the chunks the stream accepted, one query per chunk, on the
\* stream's descriptor; unless a write failed, the chunks not yet issued are
\* the buffered ones; at 'finish' every chunk was issued and the object's
\* bytes are the concatenation of the chunks.
C4_WritesAreTheChunks ==
    \A sid \in DOMAIN ws :
        LET w == Written(ws[sid].largeObject)
            acc == ws[sid].accepted
            obj == ws[sid].largeObject
        IN  /\ Len(w) <= Len(acc)
            /\ w = SubSeq(acc, 1, Len(w))
            /\ ws[sid].errors = 0 => acc = w \o ws[sid].wbuf
            /\ \A i \in DOMAIN log : IsIssue(i, "npg_lowrite") => log[i].x[1] = obj.fd
            /\ ws[sid].finished => /\ w = acc
                                   /\ objects[obj.oid.v] = BytesOf(acc)

\* three chunks, one of them empty, were written and the stream has finished
C4_Witness ==
    /\ 1 \in DOMAIN ws
    /\ ws[1].finished
    /\ ws[1].accepted = <<Buf(<<2, 3>>), Buf(<<>>), Buf(<<1>>)>>
    /\ objects[2] = <<2, 3, 1>>

\* -------------------------------------------------------------------- C5
\* C5: for the stream of openAndReadableStream, a close query for its
\* descriptor is issued exactly when 'end' is emitted, once; every read query
\* of the stream was issued and answered before it, none is issued after it.
C5_CloseAtEnd ==
    \A sid \in DOMAIN rs :
        LET closes == IssuedOn("npg_lo_close", rs[sid].largeObject)
            reads == IssuedOn("npg_loread", rs[sid].largeObject)
        IN  /\ Cardinality(closes) = IF rs[sid].endEmitted THEN 1 ELSE 0
            /\ \A i \in closes :
                  /\ log[i].x = <<rs[sid].largeObject.fd>>
                  /\ log[i - 1].t = "emit" /\ log[i - 1].name = "end" /\ log[i - 1].id = sid
                  /\ \A j \in reads : j < i /\ \E k \in AnswersTo(log[j].id) : k < i

\* the stream ended after two reads and the close query was answered
C5_Witness ==
    /\ 1 \in DOMAIN rs
    /\ rs[1].endEmitted
    /\ Cardinality(IssuedOn("npg_loread", rs[1].largeObject)) >= 2
    /\ \E i \in IssuedOn("npg_lo_close", rs[1].largeObject) :
          \E k \in AnswersTo(log[i].id) : log[k].x = NoError

\* -------------------------------------------------------------------- C6
\* C6: for the stream of createAndWritableStream, a close query for its
\* descriptor is issued exactly when 'finish' is emitted, once; every write
\* query of the stream was issued and answered before it, none after it.
C6_CloseAtFinish ==
    \A sid \in DOMAIN ws :
        LET closes == IssuedOn("npg_lo_close", ws[sid].largeObject)
            writes == IssuedOn("npg_lowrite", ws[sid].largeObject)
        IN  /\ Cardinality(closes) = IF ws[sid].finished THEN 1 ELSE 0
            /\ \A i \in closes :
                  /\ log[i].x = <<ws[sid].largeObject.fd>>
                  /\ log[i - 1].t = "emit" /\ log[i - 1].name = "finish" /\ log[i - 1].id = sid
                  /\ \A j \in writes : j < i /\ \E k \in AnswersTo(log[j].id) : k < i

\* the stream finished after two writes and the close query was answered
C6_Witness ==
    /\ 1 \in DOMAIN ws
    /\ ws[1].finished
    /\ Cardinality(IssuedOn("npg_lowrite", ws[1].largeObject)) >= 2
    /\ \E i \in IssuedOn("npg_lo_close", ws[1].largeObject) :
          \E k \in AnswersTo(log[i].id) : log[k].x = NoError

\* -------------------------------------------------------------------- C7
\* the answers by which the automatic close of a stream failed
FailedAutoClose ==
    {k \in DOMAIN log :
        /\ IsAnswer(k, "npg_lo_close")
        /\ log[k].x # NoError
        /\ log[IssueOf(log[k].id)].y.k \in {"oars_close", "caws_close"}}

\* the callback of call c was invoked once, with success, and never with an error
SucceededOnce(c) ==
    IF calls[c].style = "promise"
    THEN calls[c].promise.state = "fulfilled"
    ELSE Len(calls[c].cbs) = 1 /\ calls[c].cbs[1][1] = NoError

\* C7: when the automatic close of either stream fails, a warning is logged and
\* nothing else happens: no 'error' is emitted on the stream, 'end' or 'finish'
\* stays emitted, and the caller's callback stays invoked once, with success.
C7_CloseFailureOnlyLogged ==
    \A k \in FailedAutoClose :
        LET sid == log[IssueOf(log[k].id)].y.c
        IN  /\ k + 1 <= Len(log)
            /\ log[k + 1].t = "warn" /\ log[k + 1].id = sid /\ log[k + 1].x = log[k].x
            /\ \A j \in DOMAIN log : ~(log[j].t = "emit" /\ log[j].name = "error")
            /\ \A j \in DOMAIN log : log[j].t # "uncaught"
            /\ sid \in DOMAIN rs => rs[sid].endEmitted /\ rs[sid].errors = 0
            /\ sid \in DOMAIN ws => ws[sid].finished /\ ws[sid].errors = 0
            /\ SucceededOnce(sid)
            /\ calls[sid].thrown = NoError

\* the automatic close of a ReadStream failed
C7_Witness ==
    \E k \in FailedAutoClose : 1 \in DOMAIN rs /\ Len(rs[1].emitted) >= 2

\* -------------------------------------------------------------------- C8
\* the answers by which a read or a write of a stream failed
FailedStreamQueries ==
    {k \in DOMAIN log :
        /\ IsAnswer(k, "npg_loread") \/ IsAnswer(k, "npg_lowrite")
        /\ log[k].x # NoError}

\* C8: once a read or write query of a stream of openAndReadableStream or
\* createAndWritableStream has failed, no close query has been or is ever
\* issued, and neither 'end' nor 'finish' is emitted.
C8_NoCloseAfterStreamError ==
    FailedStreamQueries # {} =>
        /\ \A i \in DOMAIN log : ~IsIssue(i, "npg_lo_close")
        /\ \A sid \in DOMAIN rs : ~rs[sid].endEmitted
        /\ \A sid \in DOMAIN ws : ~ws[sid].finished

\* a write failed after the producer had called end(), and nothing is in flight
C8_Witness ==
    /\ \E k \in FailedStreamQueries : IsAnswer(k, "npg_lowrite")
    /\ 1 \in DOMAIN ws
    /\ ws[1].ending
    /\ ws[1].errors = 1
    /\ queue = <<>>

\* -------------------------------------------------------------------- C9
FalsyOids == {JsNull, JsUndefined, JsNum(0)}

\* the queries issued on behalf of call c
QueriesOf(c) == {i \in DOMAIN log : log[i].t = "issue" /\ log[i].y.c = c}

\* C9: open(oid, mode, callback) and unlink(oid, callback) with a falsy oid
\* throw to the caller, issue no query and never invoke the callback.
C9_FalsyOidThrows ==
    \A c \in DOMAIN calls :
        (/\ calls[c].op \in {"open", "unlink"}
         /\ calls[c].style = "callback"
         /\ calls[c].args[1] \in FalsyOids)
        => /\ calls[c].thrown = IllegalArgument
           /\ calls[c].cbs = <<>>
           /\ QueriesOf(c) = {}

\* unlink(null, callback) was called
C9_Witness ==
    \E c \in DOMAIN calls :
        /\ calls[c].op = "unlink"
        /\ calls[c].style = "callback"
        /\ calls[c].args[1] = JsNull
        /\ calls[c].thrown = IllegalArgument

\* ------------------------------------------------------------------- C10
UsageErrorOps == {"open", "unlink", "openAndReadableStream"}

\* C10 as claimed: a falsy oid passed to open, unlink, openAndReadableStream or
\* a promise-returning dual is thrown to the caller, and is delivered neither
\* as a callback error nor as a promise rejection.
C10_Claimed ==
    \A c \in DOMAIN calls :
        (calls[c].op \in UsageErrorOps /\ calls[c].args[1] \in FalsyOids)
        => /\ calls[c].thrown = IllegalArgument
           /\ calls[c].cbs = <<>>
           /\ calls[c].promise.state # "rejected"

\* C10 amended: a falsy oid passed to open, unlink or openAndReadableStream is
\* thrown to the caller and never reaches the callback; passed to openAsync,
\* unlinkAsync or openAndReadableStreamAsync nothing is thrown and the returned
\* promise is rejected with the usage error.  No query is issued either way.
C10_UsageErrorChannel ==
    \A c \in DOMAIN calls :
        (calls[c].op \in UsageErrorOps /\ calls[c].args[1] \in FalsyOids)
        => /\ QueriesOf(c) = {}
           /\ calls[c].cbs = <<>>
           /\ IF calls[c].style = "promise"
              THEN /\ calls[c].thrown = NoError
                   /\ calls[c].promise = [state |-> "rejected", value |-> IllegalArgument]
              ELSE /\ calls[c].thrown = IllegalArgument
                   /\ calls[c].promise.state = "none"

\* openAndReadableStreamAsync(0) returned a rejected promise
C10_Witness ==
    \E c \in DOMAIN calls :
        /\ calls[c].op = "openAndReadableStream"
        /\ calls[c].style = "promise"
        /\ calls[c].args[1] = JsNum(0)
        /\ calls[c].promise.state = "rejected"

\* ------------------------------------------------------------------- C11
\* the `this` that the function of call c saw, each time it was called
ThisOf(c) == {log[i].x : i \in {j \in DOMAIN log : log[j].t = "call" /\ log[j].id = c}}

\* C11: when the function given to promiseFromCallback(fn, self) throws before
\* it has called its callback, the returned promise is rejected with the error
\* thrown, nothing is thrown to the caller of promiseFromCallback, and fn was
\* called once, with self as its `this`.
C11_ThrowRejects ==
    \A c \in DOMAIN calls :
        (calls[c].op = "promiseFromCallback" /\ calls[c].args[1].kind = "throws")
        => /\ calls[c].promise = [state |-> "rejected", value |-> calls[c].args[1].error]
           /\ calls[c].thrown = NoError
           /\ ThisOf(c) = {calls[c].args[2]}
           /\ Cardinality({j \in DOMAIN log : log[j].t = "call" /\ log[j].id = c}) = 1

\* a function called with this = 'myThisObject' threw Error('bar')
C11_Witness ==
    \E c \in DOMAIN calls :
        /\ calls[c].op = "promiseFromCallback"
        /\ calls[c].args[1].kind = "throws"
        /\ calls[c].args[1].error = Error("bar")
        /\ calls[c].args[2] = "myThisObject"
        /\ calls[c].promise.state = "rejected"

\* ------------------------------------------------------------------- C12
\* call j is the next operation after call i on the handle of call i
Follows(i, j) ==
    /\ i < j
    /\ i \in OpsOn(calls[i].args[1])
    /\ j \in OpsOn(calls[i].args[1])
    /\ \A k \in OpsOn(calls[i].args[1]) : ~(i < k /\ k < j)

\* the bytes of the large object that handle obj is open on
ObjectOf(obj) == objects[obj.oid.v]

\* C12: when tell(), size() and tell() are called one after the other on a
\* handle and all succeed, the second tell() returns the position that the first
\* one returned, and size() returns the size of the large object.
C12_SizeKeepsPosition ==
    \A i, j, k \in DOMAIN calls :
        (/\ calls[i].op = "tell" /\ calls[j].op = "size" /\ calls[k].op = "tell"
         /\ Follows(i, j) /\ Follows(j, k)
         /\ HasResult(i) /\ HasResult(j) /\ HasResult(k))
        => /\ Result(k) = Result(i)
           /\ Result(j) = Len(ObjectOf(calls[j].args[1]))

\* at position 2 of a large object of 3 bytes: tell, size, tell
C12_Witness ==
    \E i, j, k \in DOMAIN calls :
        /\ calls[i].op = "tell" /\ calls[j].op = "size" /\ calls[k].op = "tell"
        /\ Follows(i, j) /\ Follows(j, k)
        /\ HasResult(i) /\ HasResult(j) /\ HasResult(k)
        /\ Result(i) = 2 /\ Result(j) = 3 /\ Result(k) = 2

\* ------------------------------------------------------------------- C13
\* C13: seek(N, SEEK_SET) with 0 <= N <= size, when it succeeds, returns N, and
\* a tell() that is the next operation on the handle returns N too.
C13_TellAfterSeek ==
    \A i \in DOMAIN calls :
        (/\ calls[i].op = "seek"
         /\ calls[i].args[3] = SEEK_SET
         /\ calls[i].args[2] >= 0
         /\ calls[i].args[2] <= Len(ObjectOf(calls[i].args[1]))
         /\ HasResult(i))
        => /\ Result(i) = calls[i].args[2]
           /\ \A j \in DOMAIN calls :
                (Follows(i, j) /\ calls[j].op = "tell" /\ HasResult(j))
                => Result(j) = calls[i].args[2]

\* seek(1, SEEK_SET) returned 1 and the tell() after it returned 1
C13_Witness ==
    \E i, j \in DOMAIN calls :
        /\ calls[i].op = "seek" /\ calls[i].args[3] = SEEK_SET /\ calls[i].args[2] = 1
        /\ HasResult(i) /\ Result(i) = 1
        /\ Follows(i, j) /\ calls[j].op = "tell" /\ HasResult(j) /\ Result(j) = 1

\* ------------------------------------------------------------------- C14
\* call j is the first operation on its handle, or follows a seek or a tell
\* that returned the position
PositionKnown(j) ==
    /\ j \in OpsOn(calls[j].args[1])
    /\ \A i \in DOMAIN calls :
            Follows(i, j) => calls[i].op \in {"seek", "tell"} /\ HasResult(i)
\* the position of the handle when call j was made
PositionAt(j) ==
    IF \E i \in DOMAIN calls : Follows(i, j)
    THEN Result(CHOOSE i \in DOMAIN calls : Follows(i, j))
    ELSE 0

\* the reads of more bytes than remain: read(L) at position p <= s with L > s - p
LongReads ==
    {j \in DOMAIN calls :
        /\ calls[j].op = "read"
        /\ PositionKnown(j)
        /\ PositionAt(j) <= Len(ObjectOf(calls[j].args[1]))
        /\ calls[j].args[2] > Len(ObjectOf(calls[j].args[1])) - PositionAt(j)
        /\ HasResult(j)}

\* C14: read(L) at position p of a large object of s bytes, with L > s - p,
\* returns the bytes p..s-1 and leaves the handle at position s: a tell() that
\* follows returns s and a read that follows returns no bytes.
C14_ShortRead ==
    \A j \in LongReads :
        LET obj == calls[j].args[1]
            s == Len(ObjectOf(obj))
        IN  /\ Result(j).isBuffer
            /\ Result(j).bytes = SubSeq(ObjectOf(obj), PositionAt(j) + 1, s)
            /\ (\A k \in DOMAIN calls : ~Follows(j, k)) => fds[obj.fd].pos = s
            /\ \A k \in DOMAIN calls :
                (Follows(j, k) /\ HasResult(k))
                => /\ calls[k].op = "tell" => Result(k) = s
                   /\ calls[k].op = "read" => Result(k).bytes = <<>>

\* at position 1 of 3 bytes, read(4) returned 2 bytes and the next read none
C14_Witness ==
    \E j \in LongReads :
        /\ PositionAt(j) = 1
        /\ calls[j].args[2] = 4
        /\ Result(j).bytes = <<2, 3>>
        /\ \E k \in DOMAIN calls :
            Follows(j, k) /\ calls[k].op = "read" /\ HasResult(k) /\ Result(k).bytes = <<>>

\* ------------------------------------------------------------------- C15
\* C15: after a seek(-k, SEEK_END) that succeeds, with 0 <= k <= size, a
\* read(n) with n >= k that is the next operation on the handle returns the
\* last k bytes of the large object.
C15_ReadFromEnd ==
    \A i, j \in DOMAIN calls :
        (/\ calls[i].op = "seek" /\ calls[i].args[3] = SEEK_END
         /\ calls[i].args[2] <= 0
         /\ -calls[i].args[2] <= Len(ObjectOf(calls[i].args[1]))
         /\ HasResult(i)
         /\ Follows(i, j) /\ calls[j].op = "read" /\ calls[j].args[2] >= -calls[i].args[2]
         /\ HasResult(j))
        => LET all == ObjectOf(calls[i].args[1])
           IN  Result(j).bytes = SubSeq(all, Len(all) + calls[i].args[2] + 1, Len(all))

\* seek(-2, SEEK_END) and read(4) on 3 bytes returned the last two
C15_Witness ==
    \E i, j \in DOMAIN calls :
        /\ calls[i].op = "seek" /\ calls[i].args[3] = SEEK_END /\ calls[i].args[2] = -2
        /\ HasResult(i)
        /\ Follows(i, j) /\ calls[j].op = "read" /\ calls[j].args[2] = 4
        /\ HasResult(j) /\ Result(j).bytes = <<2, 3>>

\* ------------------------------------------------------------------- C16
\* calls c .. c+5 are create(), open(oid, WRITE), write(B), close(), open(oid,
\* READ) and read(length(B)), each on what the ones before delivered
RoundTripAt(c) ==
    /\ c + 5 \in DOMAIN calls
    /\ calls[c].op = "create" /\ HasResult(c)
    /\ calls[c + 1].op = "open" /\ calls[c + 1].args = <<JsNum(Result(c)), WRITE>>
    /\ HasResult(c + 1)
    /\ calls[c + 2].op = "write" /\ calls[c + 2].args[1] = Result(c + 1)
    /\ calls[c + 3].op = "close" /\ calls[c + 3].args[1] = Result(c + 1)
    /\ calls[c + 4].op = "open" /\ calls[c + 4].args = <<JsNum(Result(c)), READ>>
    /\ HasResult(c + 4)
    /\ calls[c + 5].op = "read"
    /\ calls[c + 5].args = <<Result(c + 4), Len(calls[c + 2].args[2].bytes)>>

\* C16: after create(), open(oid, WRITE), write(B), close() and open(oid,
\* READ), read(length(B)) returns B, and a size() after it returns length(B).
C16_RoundTrip ==
    \A c \in DOMAIN calls :
        RoundTripAt(c) =>
            LET B == calls[c + 2].args[2].bytes
            IN  /\ HasResult(c + 5)
                    => Result(c + 5).isBuffer /\ Result(c + 5).bytes = B
                /\ (/\ c + 6 \in DOMAIN calls
                    /\ calls[c + 6].op = "size"
                    /\ calls[c + 6].args[1] = Result(c + 4)
                    /\ HasResult(c + 6))
                   => Result(c + 6) = Len(B)

\* the bytes 7, 9, 9 came back, and the size 3
C16_Witness ==
    \E c \in DOMAIN calls :
        /\ RoundTripAt(c)
        /\ calls[c + 2].args[2].bytes = <<7, 9, 9>>
        /\ HasResult(c + 5) /\ Result(c + 5).bytes = <<7, 9, 9>>
        /\ c + 6 \in DOMAIN calls /\ HasResult(c + 6) /\ Result(c + 6) = 3

\* ------------------------------------------------------------------- C17
\* call r is an openAndReadableStream of the object that the finished stream
\* of the createAndWritableStream call w has written
ReadsBack(w, r) ==
    /\ w < r
    /\ calls[w].op = "createAndWritableStream" /\ HasResult(w)
    /\ w \in DOMAIN ws /\ ws[w].finished
    /\ calls[r].op = "openAndReadableStream"
    /\ calls[r].args[1] = JsNum(FirstResult(w))

\* C17: when the stream of createAndWritableStream has finished and the object
\* is read back through openAndReadableStream, the size delivered is the number
\* of bytes the producer wrote, the chunks emitted are a prefix of those bytes
\* and, once 'end' is emitted, all of them, whatever the chunking and the
\* bufferSize of the read.
C17_StreamRoundTrip ==
    \A w, r \in DOMAIN calls :
        ReadsBack(w, r) =>
            LET F == BytesOf(ws[w].accepted)
            IN  /\ HasResult(r) => FirstResult(r) = Len(F)
                /\ r \in DOMAIN rs =>
                    /\ Len(Flatten(rs[r].emitted)) <= Len(F)
                    /\ Flatten(rs[r].emitted) = SubSeq(F, 1, Len(Flatten(rs[r].emitted)))
                    /\ rs[r].endEmitted => Flatten(rs[r].emitted) = F

\* chunks <<2, 3>>, <<>>, <<1>> were written and read back with bufferSize 2
C17_Witness ==
    \E w, r \in DOMAIN calls :
        /\ ReadsBack(w, r)
        /\ ws[w].accepted = <<Buf(<<2, 3>>), Buf(<<>>), Buf(<<1>>)>>
        /\ calls[r].args[2] = JsNum(2)
        /\ HasResult(r) /\ FirstResult(r) = 3
        /\ r \in DOMAIN rs /\ rs[r].endEmitted
        /\ rs[r].emitted = <<<<2, 3>>, <<1>>>>

\* ------------------------------------------------------------------- C18
\* the operations that are one query each
SingleQueryOps ==
    {"open", "create", "unlink", "read", "write", "seek", "tell", "size", "truncate", "close"}

\* call c is an open or unlink with a falsy oid
Rejected(c) == calls[c].op \in {"open", "unlink"} /\ calls[c].args[1] \in FalsyOids

\* the answers to the queries of call c
AnswersOf(c) == {k \in DOMAIN log : log[k].t = "answer" /\ \E i \in QueriesOf(c) : log[i].id = log[k].id}

\* what the function of call c's operation makes of the result of the query
Parsed(c, result) ==
    CASE calls[c].op = "open" -> LargeObject(calls[c].args[1], result)
      [] calls[c].op \in {"create", "read", "seek", "tell", "size"} -> result
      [] OTHER -> 0

\* what the callback of call c is to be called with for the answer at k
Due(c, k) ==
    IF log[k].x # NoError THEN <<log[k].x, 0, 0>> ELSE <<NoError, Parsed(c, log[k].y), 0>>

\* Call c has issued one query; its callback has been invoked once if the
\* query is answered, with the error or with the parsed result, and not at all
\* if it is not; the promise of a dual is settled if and only if it is answered.
OneQueryOneCallback(c) ==
    /\ Cardinality(QueriesOf(c)) = 1
    /\ Cardinality(AnswersOf(c)) <= 1
    /\ calls[c].thrown = NoError
    /\ IF calls[c].style = "callback"
       THEN /\ Len(calls[c].cbs) = Cardinality(AnswersOf(c))
            /\ \A k \in AnswersOf(c) : calls[c].cbs[1] = Due(c, k)
       ELSE /\ calls[c].cbs = <<>>
            /\ calls[c].promise.state = "pending" <=> AnswersOf(c) = {}

C19_ErrorDelivered ==
    \A c \in DOMAIN calls :
        \A k \in AnswersOf(c) :
            (calls[c].op \in SingleQueryOps /\ log[k].x # NoError)
            => /\ Cardinality(QueriesOf(c)) = 1
               /\ calls[c].thrown = NoError
               /\ IF calls[c].style = "callback"
                  THEN calls[c].cbs = <<<<log[k].x, 0, 0>>>>
                  ELSE calls[c].promise = [state |-> "rejected", value |-> log[k].x]

\* a readAsync was rejected with the error of its query
C19_Witness ==
    \E c \in DOMAIN calls :
        /\ calls[c].op = "read"
        /\ calls[c].style = "promise"
        /\ calls[c].promise.state = "rejected"
        /\ \E k \in AnswersOf(c) : calls[c].promise.value = DatabaseError(log[k].id)

\* ------------------------------------------------------------------- C20
\* C20: create() issues one query, lo_creat with mode READWRITE = WRITE | READ
\* = 0x60000, and no open query; it delivers the new oid, which is not 0, and
\* nothing else; a descriptor on the new object exists only if an open was
\* called for it.
C20_CreateLeavesClosed ==
    /\ READWRITE = 393216 /\ READWRITE = WRITE + READ
    /\ \A c \in DOMAIN calls :
        calls[c].op = "create" =>
            /\ Cardinality(QueriesOf(c)) = 1
            /\ \A i \in QueriesOf(c) :
                    log[i].name = "npg_lo_creat" /\ log[i].x = <<READWRITE>>
            /\ HasResult(c) =>
                /\ Result(c) > 0
                /\ \A k \in AnswersOf(c) : Result(c) = log[k].y
                /\ calls[c].style = "callback" => calls[c].cbs = <<<<NoError, Result(c), 0>>>>
                /\ \A fd \in DOMAIN fds :
                        fds[fd].oid = Result(c) =>
                            \E o \in DOMAIN calls :
                                calls[o].op = "open" /\ calls[o].args[1] = JsNum(Result(c))

\* create() has delivered oid 2, and no descriptor is open
C20_Witness ==
    \E c \in DOMAIN calls :
        /\ calls[c].op = "create"
        /\ calls[c].style = "callback"
        /\ calls[c].cbs = <<<<NoError, 2, 0>>>>
        /\ fds = <<>>

\* ------------------------------------------------------------------- C21
\* the unlink queries issued without a function, by unlink(oid) without callback
UnlinksWithoutCallback ==
    {i \in DOMAIN log : IsIssue(i, "npg_lo_unlink") /\ log[i].y = NoCb}

\* the calls of unlink(oid) with an oid that is not falsy and without callback
FireAndForget ==
    {c \in DOMAIN calls :
        calls[c].op = "unlink" /\ calls[c].style = "none" /\ calls[c].args[1] \notin FalsyOids}

\* something was raised: an uncaught exception, a rejection nobody handles,
\* an 'error' on the client
Raised == {i \in DOMAIN log : log[i].t \in {"uncaught", "unhandledRejection", "client"}}

\* C21: unlink(oid) with an oid that is not falsy and without a callback issues
\* the unlink query and returns without error; whether the query fails or not,
\* nothing is raised and no callback is invoked, with the adapter of pg and with
\* that of pg-promise.
C21_Claimed ==
    FireAndForget # {} =>
        /\ Cardinality(UnlinksWithoutCallback) = Cardinality(FireAndForget)
        /\ \A c \in FireAndForget : calls[c].thrown = NoError /\ calls[c].cbs = <<>>
        /\ Raised = {}

\* ------------------------------------------------------------------- C22
\* the name of the query of each operation
QueryName(op) ==
    CASE op = "open" -> "npg_lo_open"
      [] op = "seek" -> "npg_lo_lseek64"
      [] op = "tell" -> "npg_lo_tell64"
      [] op = "read" -> "npg_loread"
      [] op = "write" -> "npg_lowrite"
      [] op = "size" -> "npg_size"
      [] op = "truncate" -> "npg_lo_truncate64"
      [] op = "close" -> "npg_lo_close"
      [] OTHER -> "none"

\* the number of the query of call c, when every call that did not throw has
\* issued one query at once, and the places of that query and of its answer
QidOf(c) == Cardinality({d \in 1..c : calls[d].thrown = NoError})
IssuedBy(c) == {i \in DOMAIN log : log[i].t = "issue" /\ log[i].id = QidOf(c)}
AnsweredTo(c) == AnswersTo(QidOf(c))

\* the callback of call c has run, or its promise is settled
Delivered(c) == calls[c].cbs # <<>> \/ calls[c].promise.state \in {"fulfilled", "rejected"}

\* call i is a seek(N, SEEK_SET) that the server has run, and call j a tell()
\* right after it on the same handle that has delivered a position
SeekThenTell(i, j) ==
    /\ calls[i].op = "seek" /\ calls[i].args[3] = SEEK_SET /\ calls[i].args[2] >= 0
    /\ Follows(i, j)
    /\ calls[j].op = "tell" /\ HasResult(j)
    /\ \E k \in AnsweredTo(i) : log[k].x = NoError

\* C22: operations called on a handle without waiting issue their queries in
\* the order of the calls; the server runs the queries in that order, and the
\* callbacks run in that order; a tell() right after a seek(N, SEEK_SET),
\* with or without callback, that the server has run reports N.
C22_IssueOrder ==
    /\ \A c \in DOMAIN calls :
            calls[c].thrown = NoError =>
                /\ Cardinality(IssuedBy(c)) = 1
                /\ \A i \in IssuedBy(c) :
                        /\ log[i].name = QueryName(calls[c].op)
                        /\ calls[c].op # "open" => log[i].x[1] = calls[c].args[1].fd
                        /\ calls[c].style # "none" => log[i].y = CallerCb(c)
    /\ \A i, j \in DOMAIN log :
            (log[i].t = "answer" /\ log[j].t = "answer" /\ i < j) => log[i].id < log[j].id
    /\ \A j \in DOMAIN log :
            log[j].t = "answer" => \A qid \in 1..log[j].id : \E i \in AnswersTo(qid) : i <= j
    /\ \A c, d \in DOMAIN calls :
            (c < d /\ calls[c].style # "none" /\ Delivered(d)) => Delivered(c)
    /\ \A c \in DOMAIN calls :
            IF calls[c].style = "none" THEN ~Delivered(c) ELSE Delivered(c) <=> AnsweredTo(c) # {}
    /\ \A i, j \in DOMAIN calls : SeekThenTell(i, j) => Result(j) = calls[i].args[2]

\* seek past the end without a callback and tell() were called before any
\* answer, and tell has reported the position of the seek
C22_Witness ==
    \E i, j \in DOMAIN calls :
        /\ SeekThenTell(i, j)
        /\ calls[i].style = "none"
        /\ calls[i].args[2] = MaxSize + 1
        /\ \E a \in AnsweredTo(i), b \in IssuedBy(j) : b < a
        /\ Result(j) = MaxSize + 1

\* ------------------------------------------------------------------- C23
\* the caller's last call is an operation on a handle, and the handle
Operating == calls # <<>> /\ calls[Len(calls)].op # "open"
Operated == calls[Len(calls)].args[1]

\* this step answers the query of the caller's last call, an operation on a
\* handle other than that of descriptor b
AnswersOther(b) ==
    /\ Operating
    /\ Operated.fd # b
    /\ queue # <<>>
    /\ \E i \in DOMAIN log' : i > Len(log) /\ log'[i].t = "answer"

\* what the caller could call next on descriptor b
Probes(b) ==
    {[qid |-> 0, name |-> "npg_loread", values |-> <<b, n>>, hasFn |-> FALSE, cb |-> NoCb] :
        n \in ReadLengths}
    \cup {[qid |-> 0, name |-> name, values |-> <<b>>, hasFn |-> FALSE, cb |-> NoCb] :
            name \in {"npg_lo_tell64", "npg_size", "npg_lo_close"}}
    \cup {[qid |-> 0, name |-> "npg_lowrite", values |-> <<b, chunk>>, hasFn |-> FALSE, cb |-> NoCb] :
            chunk \in ChunkInputs}
    \cup {[qid |-> 0, name |-> "npg_lo_lseek64", values |-> <<b, to[1], to[2]>>, hasFn |-> FALSE,
            cb |-> NoCb] : to \in SeekInputs}

\* in this step descriptor b keeps its large object, its mode and its position
SameDescriptor(b) == b \in DOMAIN fds' /\ fds'[b] = fds[b]

\* whatever is called next on b succeeds or fails, and returns, after this step
\* as before it
SameResults(b) ==
    \A probe \in Probes(b) :
        /\ Exec(St', probe, TRUE).err = Exec(St, probe, TRUE).err
        /\ Exec(St, probe, TRUE).err = NoError
            => Exec(St', probe, TRUE).result = Exec(St, probe, TRUE).result

Modifying == {"write", "truncate"}

Modified(op) == Len(calls) >= 5 /\ calls[5].op = op
PositionBefore == Result(3)
SizeBefore == Result(4)
BytesBefore == Content(SizeBefore)

\* call c of the run has delivered a result
Got(c) == Len(calls) >= c /\ HasResult(c)

\* C24: truncate(length), when it succeeds, sets the size of the large object
\* to length, keeps the bytes below the old size and the new one, reads as
\* zeros from the old size on, and keeps the position: tell() returns after
\* it what it returned before.
C24_Truncate ==
    (Modified("truncate") /\ Got(5)) =>
        LET length == calls[5].args[2]
            now == objects[1]
        IN  /\ Len(now) = length
            /\ \A i \in 1..length : now[i] = IF i <= SizeBefore THEN BytesBefore[i] ELSE 0
            /\ Len(calls) <= 7 => fds[Result(1).fd].pos = PositionBefore
            /\ Got(6) => Result(6) = PositionBefore
            /\ Got(7) => Result(7) = length
            /\ Got(9) => Result(9).bytes = now

\* at position 2 of a large object of 1 byte, truncate(4) has left the position
\* at 2 and the bytes 1, 0, 0, 0
C24_Witness ==
    /\ Modified("truncate") /\ Got(5)
    /\ calls[5].args[2] = MaxSize + 1
    /\ SizeBefore = 1
    /\ Got(6) /\ Result(6) = 2
    /\ Got(7) /\ Result(7) = MaxSize + 1
    /\ Got(9) /\ Result(9).bytes = <<1>> \o [i \in 1..MaxSize |-> 0]

\* ------------------------------------------------------------------- C25
\* C25: write(buffer) at position p on a handle opened with WRITE or READWRITE,
\* when it succeeds, stores the bytes of the buffer at p..p+len-1, leaves the
\* other bytes as they were, and moves the position to p + len, which tell()
\* then returns; on a handle opened with READ the write fails with the error
\* of the query and leaves the bytes and the position as they were.
C25_Write ==
    Modified("write") =>
        LET data == calls[5].args[2].bytes
            now == objects[1]
            p == PositionBefore
        IN  /\ Got(5) =>
                /\ HasWrite(calls[1].args[2])
                /\ Len(now) = IF data # <<>> /\ p + Len(data) > SizeBefore
                              THEN p + Len(data) ELSE SizeBefore
                /\ \A i \in 1..Len(data) : now[p + i] = data[i]
                /\ \A i \in 1..Len(now) :
                        (i <= p \/ i > p + Len(data))
                        => now[i] = IF i <= SizeBefore THEN BytesBefore[i] ELSE 0
                /\ Len(calls) <= 7 => fds[Result(1).fd].pos = p + Len(data)
                /\ Got(6) => Result(6) = p + Len(data)
                /\ Got(9) => Result(9).bytes = now
            /\ (calls[1].args[2] = READ /\ AnswersOf(5) # {}) =>
                /\ Failed(5)
                /\ \A k \in AnswersOf(5) :
                        IF calls[5].style = "promise"
                        THEN calls[5].promise.value = DatabaseError(log[k].id)
                        ELSE calls[5].cbs = <<<<DatabaseError(log[k].id), 0, 0>>>>
                /\ now = BytesBefore
                /\ fds[Result(1).fd].pos = p

\* two bytes were written at position 1 of a large object of 2 bytes, and read
\* back with the byte before them
C25_Witness ==
    /\ Modified("write") /\ Got(5)
    /\ calls[5].args[2] = Buf(<<2, 3>>)
    /\ SizeBefore = 2
    /\ Got(6) /\ Result(6) = 3
    /\ Got(9) /\ Result(9).bytes = <<1, 2, 3>>

\* a write on a handle opened with READ has failed
C25_WitnessReadOnly ==
    /\ Modified("write")
    /\ calls[1].args[2] = READ
    /\ AnswersOf(5) # {}
    /\ Failed(5)
    /\ PositionBefore = 1

\* ------------------------------------------------------------------- C26
\* the write queries that carry chunk
WritesOf(chunk) == {i \in DOMAIN log : IsIssue(i, "npg_lowrite") /\ log[i].x[2] = chunk}

\* C26: _write with a chunk that is no Buffer throws, issues no write query for
\* the chunk and never calls its callback; _write with a Buffer throws nothing
\* and issues one write query, with the descriptor of the stream's handle, the
\* very chunk and the callback it was given.
C26_WriteChecksChunk ==
    \A c \in DOMAIN calls :
        calls[c].op = "_write" =>
            LET sid == calls[c].args[1]
                chunk == calls[c].args[2]
            IN  IF chunk.isBuffer
                THEN /\ calls[c].thrown = NoError
                     /\ Cardinality(QueriesOf(c)) = 1
                     /\ \A i \in QueriesOf(c) :
                            /\ log[i].name = "npg_lowrite"
                            /\ log[i].x = <<ws[sid].largeObject.fd, chunk>>
                            /\ log[i].y = CallerCb(c)
                ELSE /\ calls[c].thrown = IllegalArgument
                     /\ QueriesOf(c) = {}
                     /\ WritesOf(chunk) = {}
                     /\ calls[c].cbs = <<>>

\* _write was called with a string and then with a Buffer, and the write
\* of the Buffer was answered
C26_Witness ==
    \E c, d \in DOMAIN calls :
        /\ c < d
        /\ calls[c].op = "_write" /\ calls[c].args[2] = Str(<<1>>)
        /\ calls[c].thrown = IllegalArgument
        /\ calls[d].op = "_write" /\ calls[d].args[2] = Buf(<<1>>)
        /\ calls[d].cbs = <<<<NoError, 0, 0>>>>

\* ------------------------------------------------------------------- C27
\* the calls of _read by the caller, with a length that is positive or not
Pulls(positive) ==
    {c \in DOMAIN calls : calls[c].op = "_read" /\ (calls[c].args[2] > 0) = positive}

\* the read queries issued, the reads answered well, and what streams pushed
ReadsIssued == {i \in DOMAIN log : IsIssue(i, "npg_loread")}
ReadsDone == {i \in DOMAIN log : IsAnswer(i, "npg_loread") /\ log[i].x = NoError}
Pushes(name) == {i \in DOMAIN log : log[i].t = "push" /\ log[i].name = name}

\* C27: _read(length) with length <= 0 throws and does nothing else: no read
\* query is issued for it, no data is pushed and the end is not signalled;
\* every read query and every push comes from a _read with a positive length.
C27_PullNeedsLength ==
    /\ \A c \in Pulls(FALSE) : calls[c].thrown = IllegalArgument /\ calls[c].cbs = <<>>
    /\ \A c \in Pulls(TRUE) : calls[c].thrown = NoError
    /\ Cardinality(ReadsIssued) = Cardinality(Pulls(TRUE))
    /\ \A i \in ReadsIssued : log[i].x[2] > 0
    /\ Cardinality(Pushes("data")) = Cardinality(ReadsDone)
    /\ Cardinality(Pushes("null")) = Cardinality(ShortReads)
    /\ \A i \in DOMAIN log : ~(log[i].t = "emit" /\ log[i].name \in {"data", "end"})
    /\ Pulls(TRUE) = {} =>
            \A sid \in DOMAIN rs :
                rs[sid].buffer = <<>> /\ ~rs[sid].ended /\ ~rs[sid].reading /\ rs[sid].errors = 0

\* _read(0) and _read(-1) were called on a stream, and nothing has happened
C27_Witness ==
    /\ \E c, d \in Pulls(FALSE) : calls[c].args[2] = 0 /\ calls[d].args[2] = -1
    /\ 1 \in DOMAIN rs
    /\ ReadsIssued = {}
    /\ rs[1].buffer = <<>> /\ ~rs[1].ended

\* ------------------------------------------------------------------- C28
\* the stream whose read or write was answered at k
StreamOf(k) == log[IssueOf(log[k].id)].y.c

\* the failure at k was emitted as 'error' on its stream, in the same turn
EmittedAt(k) ==
    /\ k + 1 <= Len(log)
    /\ log[k + 1] = Ev("emit", "error", StreamOf(k), log[k].x, 0)

\* from k on, the stream of k issues no read or write query, pushes nothing
\* and signals neither the end nor 'finish'
SilentAfter(k) ==
    /\ \A j \in (k + 1)..Len(log) :
            /\ ~IsIssue(j, "npg_loread") /\ ~IsIssue(j, "npg_lowrite")
            /\ log[j].t # "push"
            /\ ~(log[j].t = "emit" /\ log[j].name \in {"end", "finish"})
    /\ \A sid \in DOMAIN rs : ~rs[sid].ended /\ ~rs[sid].endEmitted
    /\ \A sid \in DOMAIN ws : ~ws[sid].finished

\* the 'data' events after k
DataAfter(k) == {j \in (k + 1)..Len(log) : log[j].t = "emit" /\ log[j].name = "data"}

\* C28 as claimed: a failed read or write of a stream is emitted as 'error' on
\* the stream, and after it the stream issues no read or write query, emits no
\* data, and signals neither the end nor 'finish'.
C28_Claimed ==
    \A k \in FailedStreamQueries : EmittedAt(k) /\ SilentAfter(k) /\ DataAfter(k) = {}

\* C28 amended: a failed read or write of a stream is emitted as 'error' on the
\* stream, and after it the stream issues no read or write query, pushes no
\* data, and signals neither the end nor 'finish'; the data that is emitted
\* after the error was pushed before it and had not been taken yet.
C28_StreamErrorTerminal ==
    \A k \in FailedStreamQueries :
        /\ EmittedAt(k)
        /\ SilentAfter(k)
        /\ \A sid \in DOMAIN rs :
                LET before == {i \in 1..k : log[i].t = "push" /\ log[i].name = "data"
                                             /\ log[i].x # <<>>}
                IN  /\ rs[sid].errors = 1
                    /\ Len(rs[sid].emitted) + Len(rs[sid].buffer) = Cardinality(before)
                    /\ \A j \in DataAfter(k) : \E i \in before : log[i].x = log[j].x
        /\ \A sid \in DOMAIN ws : ws[sid].errors = 1 /\ ~ws[sid].writing /\ ws[sid].wbuf = <<>>

\* the second read of a stream has failed while the bytes of the first were
\* not taken yet, and the consumer has taken them after the error
C28_Witness ==
    \E k \in FailedStreamQueries :
        /\ IsAnswer(k, "npg_loread")
        /\ DataAfter(k) # {}
        /\ 1 \in DOMAIN rs /\ rs[1].errors = 1 /\ rs[1].buffer = <<>>
        /\ queue = <<>>

\* the second write of a stream has failed with a chunk still buffered, and
\* the producer has called end()
C28_WitnessWrite ==
    \E k \in FailedStreamQueries :
        /\ IsAnswer(k, "npg_lowrite")
        /\ Cardinality(IssuedOn("npg_lowrite", ws[1].largeObject)) = 2
        /\ Len(ws[1].accepted) = 3
        /\ ws[1].ending

\* ------------------------------------------------------------------- C29
\* the stream of call 1 was made; it has emitted 'end' or 'error'
StreamMade == 1 \in DOMAIN rs
StreamOver == 1 \in DOMAIN rs /\ (rs[1].endEmitted \/ rs[1].errors > 0)

\* C29: when every query is answered in the end and the consumer keeps
\* pulling, a ReadStream on a large object that nobody writes to emits 'end'
\* or 'error' in the end.
C29_StreamTerminates == StreamMade ~> StreamOver

\* the stream has emitted 'end' after three reads
C29_Witness ==
    /\ StreamOver
    /\ rs[1].endEmitted
    /\ Cardinality(ReadsIssued) = 3

\* ------------------------------------------------------------------- C30
\* the queries named name of call c, in the order issued, and the answers
\* without error to them
Issued(c, name) == {i \in QueriesOf(c) : log[i].name = name}
Succeeded(c, name) ==
    {k \in DOMAIN log :
        /\ IsAnswer(k, name) /\ log[k].x = NoError
        /\ \E i \in Issued(c, name) : log[i].id = log[k].id}

\* what call c has delivered: nothing yet, or (err, a1, a2) once
DeliveredOnce(c, err, a1, a2) ==
    IF calls[c].style = "promise"
    THEN /\ calls[c].cbs = <<>>
         /\ calls[c].promise =
                IF err # NoError THEN [state |-> "rejected", value |-> err]
                ELSE [state |-> "fulfilled", value |-> <<a1, a2>>]
    ELSE calls[c].cbs = <<<<err, a1, a2>>>>
NothingDelivered(c) == calls[c].cbs = <<>> /\ calls[c].promise.state \in {"none", "pending"}

\* C30: openAndReadableStream(oid) with an oid that is not falsy issues first
\* the open query, for (oid, READ), then, when that has succeeded, one size
\* query on the descriptor returned; its callback is called once with (null,
\* size, stream) when the size query has succeeded and not before, and the
\* dual is resolved with [size, stream] then; read queries are issued only
\* after that, and all on the descriptor returned by the open.
C30_OpenSizeThenStream ==
    \A c \in DOMAIN calls :
        (calls[c].op = "openAndReadableStream" /\ calls[c].args[1] \notin FalsyOids) =>
            LET opens == Issued(c, "npg_lo_open")
                sizes == Issued(c, "npg_size")
                opened == Succeeded(c, "npg_lo_open")
                sized == Succeeded(c, "npg_size")
            IN  /\ calls[c].thrown = NoError
                /\ Cardinality(opens) = 1
                /\ \A i \in opens :
                        /\ log[i].x = <<calls[c].args[1], READ>>
                        /\ \A j \in QueriesOf(c) : i <= j
                /\ Cardinality(sizes) = Cardinality(opened)
                /\ \A k \in opened : \A i \in sizes :
                        /\ i = k + 1
                        /\ log[i].x = <<log[k].y>>
                        /\ \A j \in QueriesOf(c) : j \notin opens => i <= j
                /\ IF sized = {}
                   THEN /\ c \notin DOMAIN rs
                        /\ \A i \in DOMAIN log : ~IsIssue(i, "npg_loread")
                        /\ ~HasResult(c)
                   ELSE \A k \in sized :
                            /\ DeliveredOnce(c, NoError, log[k].y, c)
                            /\ c \in DOMAIN rs
                            /\ \A o \in opened :
                                    /\ rs[c].largeObject = LargeObject(calls[c].args[1], log[o].y)
                                    /\ \A i \in DOMAIN log :
                                            IsIssue(i, "npg_loread")
                                            => i > k /\ log[i].x[1] = log[o].y
                /\ (opened = {} /\ AnswersOf(c) = {}) => NothingDelivered(c)
                /\ (sized = {} /\ sizes # {} /\ Cardinality(AnswersOf(c)) = 1)
                        => NothingDelivered(c)

\* openAndReadableStreamAsync(1, 2) is resolved with the size 3 and the stream,
\* and the stream has issued its second read on the descriptor of the open
C30_Witness ==
    \E c \in DOMAIN calls :
        /\ calls[c].op = "openAndReadableStream"
        /\ calls[c].style = "promise"
        /\ calls[c].args = <<JsNum(1), JsNum(2)>>
        /\ calls[c].promise = [state |-> "fulfilled", value |-> <<3, c>>]
        /\ Cardinality(ReadsIssued) = 2
        /\ \A i \in ReadsIssued : log[i].x[1] = 0

\* ------------------------------------------------------------------- C31
\* the write queries issued
WritesIssued == {i \in DOMAIN log : IsIssue(i, "npg_lowrite")}

\* C31: createAndWritableStream issues first the creation query, with mode
\* READWRITE, then, when that has succeeded, one open query for (the oid
\* returned, WRITE); its callback is called once with (null, oid, stream) when
\* the open has succeeded and not before, the oid being the one the creation
\* returned, and the dual is resolved with [oid, stream] then; write queries
\* are issued only after that, and all on the descriptor returned by the open.
C31_CreateOpenThenStream ==
    \A c \in DOMAIN calls :
        calls[c].op = "createAndWritableStream" =>
            LET creates == Issued(c, "npg_lo_creat")
                opens == Issued(c, "npg_lo_open")
                created == Succeeded(c, "npg_lo_creat")
                opened == Succeeded(c, "npg_lo_open")
            IN  /\ calls[c].thrown = NoError
                /\ Cardinality(creates) = 1
                /\ \A i \in creates :
                        /\ log[i].x = <<READWRITE>>
                        /\ \A j \in QueriesOf(c) : i <= j
                /\ Cardinality(opens) = Cardinality(created)
                /\ \A k \in created : \A i \in opens :
                        /\ i = k + 1
                        /\ log[i].x = <<JsNum(log[k].y), WRITE>>
                        /\ \A j \in QueriesOf(c) : j \notin creates => i <= j
                /\ IF opened = {}
                   THEN /\ c \notin DOMAIN ws
                        /\ WritesIssued = {}
                        /\ ~HasResult(c)
                   ELSE \A k \in opened : \A o \in created :
                            /\ DeliveredOnce(c, NoError, log[o].y, c)
                            /\ c \in DOMAIN ws
                            /\ ws[c].largeObject = LargeObject(JsNum(log[o].y), log[k].y)
                            /\ \A i \in WritesIssued : i > k /\ log[i].x[1] = log[k].y
                /\ (created = {} /\ AnswersOf(c) = {}) => NothingDelivered(c)
                /\ (opened = {} /\ opens # {} /\ Cardinality(AnswersOf(c)) = 1)
                        => NothingDelivered(c)

\* createAndWritableStreamAsync() is resolved with the new oid 2 and the
\* stream, and the stream has issued two writes on the descriptor of the open
C31_Witness ==
    \E c \in DOMAIN calls :
        /\ calls[c].op = "createAndWritableStream"
        /\ calls[c].style = "promise"
        /\ calls[c].promise = [state |-> "fulfilled", value |-> <<2, c>>]
        /\ Cardinality(WritesIssued) = 2
        /\ \A i \in WritesIssued : log[i].x[1] = 0

\* ------------------------------------------------------------------- C32
\* In a run of SpecAfterClose: the handle that call 1 has delivered, and the
\* calls made on it after close() was called
ClosedHandle == Result(1)
AfterClose == {c \in DOMAIN calls : c > 2}

\* C32: a handle keeps the oid it was opened with and the descriptor the open
\* returned; an operation called on it after close(), close() included, does
\* not throw and issues one query of its kind on that descriptor, and what
\* the caller gets for it comes with the answer to that query, not before.
C32_NoClosedState ==
    Len(calls) >= 2 =>
        /\ \E k \in AnsweredTo(1) : ClosedHandle = LargeObject(JsNum(1), log[k].y)
        /\ nq = Len(calls)
        /\ \A c \in AfterClose \cup {2} :
                /\ calls[c].thrown = NoError
                /\ calls[c].args[1] = ClosedHandle
                /\ Cardinality(IssuedBy(c)) = 1
                /\ \A i \in IssuedBy(c) :
                        /\ log[i].name = QueryName(calls[c].op)
                        /\ log[i].x[1] = ClosedHandle.fd
                /\ AnsweredTo(c) = {} => ~Delivered(c)
                /\ \A k \in AnsweredTo(c) :
                        (calls[c].style # "none") => (Delivered(c) /\ (Failed(c) <=> log[k].x # NoError))

\* the handle was closed, and a second close() on it has issued a close query
\* for the same descriptor, which the server has refused
C32_Witness ==
    /\ Len(calls) >= 3
    /\ calls[2].op = "close" /\ HasResult(2)
    /\ calls[3].op = "close" /\ Failed(3)
    /\ \E i \in IssuedBy(3) : log[i].x = <<ClosedHandle.fd>>
    /\ \E k \in AnsweredTo(3) : log[k].x = DatabaseError(3)

\* ------------------------------------------------------------------- C33
\* the push(null) of a stream comes right after the push of the read answered at k
EndsAt(k) == k + 2 <= Len(log) /\ log[k + 2].t = "push" /\ log[k + 2].name = "null"

\* C33: a ReadStream on a large object of S bytes, read from its start in
\* pulls of L bytes, does not signal the end after a read that returned L
\* bytes; it issues at most S \div L + 1 read queries, and exactly so many
\* when it has signalled the end; when S is a multiple of L, zero included,
\* the end is signalled after a read that returned no bytes.
C33_ReadCount ==
    \A sid \in DOMAIN rs :
        LET S == Len(objects[1])
            L == rs[sid].highWaterMark
        IN  /\ Cardinality(ReadsIssued) <= S \div L + 1
            /\ rs[sid].ended => Cardinality(ReadsIssued) = S \div L + 1
            /\ \A i \in ReadsIssued : log[i].x[2] = L
            /\ \A k \in ReadsDone : Len(log[k].y.bytes) = L => ~EndsAt(k)
            /\ (rs[sid].ended /\ S % L = 0)
                    => \E k \in ReadsDone : log[k].y.bytes = <<>> /\ EndsAt(k)

\* two bytes were read in pulls of two bytes: the first read returned both, and
\* the end was signalled after a second read, which returned none
C33_Witness ==
    /\ 1 \in DOMAIN rs
    /\ rs[1].ended
    /\ rs[1].highWaterMark = 2
    /\ Len(objects[1]) = 2
    /\ Cardinality(ReadsIssued) = 2
    /\ \E k \in ReadsDone : log[k].y.bytes = <<1, 2>>

\* ------------------------------------------------------------------- C34
IsPrefix(a, b) == Len(a) <= Len(b) /\ a = SubSeq(b, 1, Len(a))

\* C34: the stream that openAndReadableStream delivers with the size emits
\* the bytes of the large object from its first byte on, in order, when nobody
\* writes to the object; when it has emitted 'end' it has emitted as many
\* bytes as the size delivered, and they are the bytes of the object.
C34_StreamEmitsObject ==
    \A sid \in DOMAIN rs :
        LET emitted == Flatten(rs[sid].emitted)
            pushed == Flatten(rs[sid].emitted \o rs[sid].buffer)
        IN  /\ HasResult(sid)
            /\ FirstResult(sid) = Len(objects[1])
            /\ IsPrefix(emitted, objects[1])
            /\ IsPrefix(pushed, objects[1])
            /\ rs[sid].ended => pushed = objects[1]
            /\ rs[sid].endEmitted
                    => /\ Len(emitted) = FirstResult(sid)
                       /\ emitted = Content(FirstResult(sid))

\* the size delivered is 3 and the stream has emitted the three bytes in two
\* chunks, then 'end'
C34_Witness ==
    /\ 1 \in DOMAIN rs
    /\ rs[1].endEmitted
    /\ FirstResult(1) = 3
    /\ rs[1].emitted = <<<<1, 2>>, <<3>>>>

\* ------------------------------------------------------------------- C35
\* the COMMIT queries of the caller's listener, and the handle of stream sid
Commits == {i \in DOMAIN log : IsIssue(i, "COMMIT")}
HandleOf(sid) == IF sid \in DOMAIN rs THEN rs[sid].largeObject ELSE ws[sid].largeObject

\* C35: when the listener that the caller has registered on the stream it was
\* handed, for 'end' of the stream of openAndReadableStream or for 'finish' of
\* that of createAndWritableStream, submits its COMMIT, the close query for
\* the stream's descriptor was submitted before it, in the same turn; the
\* close is answered before the COMMIT, and finds the descriptor open.
C35_CloseBeforeCommit ==
    /\ \A i \in Commits :
        LET sid == log[i].y.c
            closes == IssuedOn("npg_lo_close", HandleOf(sid))
        IN  /\ Cardinality(closes) = 1
            /\ \A j \in closes :
                    /\ j = i - 1
                    /\ log[j].id < log[i].id
                    /\ \A ka \in AnswersTo(log[i].id) :
                            \E kb \in AnswersTo(log[j].id) :
                                kb < ka
    /\ \A n \in DOMAIN queue :
            queue[n].name = "npg_lo_close" => queue[n].values[1] \in DOMAIN fds

\* the stream of createAndWritableStream has finished, the listener of the
\* caller has submitted COMMIT, and close and COMMIT were answered well
C35_Witness ==
    /\ 1 \in DOMAIN ws
    /\ ws[1].finished
    /\ \E i \in Commits : \E ka \in AnswersTo(log[i].id) :
            /\ log[ka].x = NoError
            /\ \E j \in IssuedOn("npg_lo_close", ws[1].largeObject) :
                    \E kb \in AnswersTo(log[j].id) : kb < ka /\ log[kb].x = NoError

\* the same for the stream of openAndReadableStream at 'end'
C35_WitnessRead ==
    /\ 1 \in DOMAIN rs
    /\ rs[1].endEmitted
    /\ \E i \in Commits : \E ka \in AnswersTo(log[i].id) :
            /\ log[ka].x = NoError
            /\ \E j \in IssuedOn("npg_lo_close", rs[1].largeObject) :
                    \E kb \in AnswersTo(log[j].id) : kb < ka /\ log[kb].x = NoError

\* ------------------------------------------------------------------- C36
\* the answers with an error to the queries named name of call c
Refused(c, name) ==
    {k \in DOMAIN log :
        /\ IsAnswer(k, name) /\ log[k].x # NoError
        /\ \E i \in Issued(c, name) : log[i].id = log[k].id}

\* every query issued so far is one of those named
OnlyIssued(names) == \A i \in DOMAIN log : log[i].t = "issue" => log[i].name \in names

\* C36: when the open query of openAndReadableStream fails, the callback is
\* called once, with that error and nothing else, and no size query is issued;
\* when the open succeeds and the size query fails, the callback is called
\* once, with that error and no stream, no stream is made, and no close query
\* is issued: the descriptor that was opened stays open.
C36_StreamNotOpened ==
    \A c \in DOMAIN calls :
        calls[c].op = "openAndReadableStream" =>
            /\ \A k \in Refused(c, "npg_lo_open") :
                    /\ DeliveredOnce(c, log[k].x, 0, 0)
                    /\ OnlyIssued({"npg_lo_open"})
                    /\ Cardinality(QueriesOf(c)) = 1
                    /\ c \notin DOMAIN rs
            /\ \A k \in Refused(c, "npg_size") :
                    /\ DeliveredOnce(c, log[k].x, 0, 0)
                    /\ OnlyIssued({"npg_lo_open", "npg_size"})
                    /\ Cardinality(QueriesOf(c)) = 2
                    /\ c \notin DOMAIN rs
                    /\ \A o \in Succeeded(c, "npg_lo_open") : log[o].y \in DOMAIN fds

\* the open has succeeded and the size query has failed: the callback was
\* called with the error of the size query, and descriptor 0 is still open
C36_Witness ==
    \E c \in DOMAIN calls :
        /\ calls[c].op = "openAndReadableStream"
        /\ calls[c].cbs = <<<<DatabaseError(2), 0, 0>>>>
        /\ Succeeded(c, "npg_lo_open") # {}
        /\ Refused(c, "npg_size") # {}
        /\ 0 \in DOMAIN fds
        /\ queue = <<>>

\* the open has failed: the dual is rejected with its error
C36_WitnessOpen ==
    \E c \in DOMAIN calls :
        /\ calls[c].op = "openAndReadableStream"
        /\ calls[c].promise = [state |-> "rejected", value |-> DatabaseError(1)]
        /\ Refused(c, "npg_lo_open") # {}

\* ------------------------------------------------------------------- C37
\* C37: when the creation query of createAndWritableStream fails, the callback
\* is called once, with that error and nothing else, and no open query is
\* issued; when the creation succeeds and the open query fails, the callback
\* is called once, with that error and neither oid nor stream, no stream is
\* made, and no unlink query is issued: the large object just created stays.
C37_StreamNotCreated ==
    \A c \in DOMAIN calls :
        calls[c].op = "createAndWritableStream" =>
            /\ \A k \in Refused(c, "npg_lo_creat") :
                    /\ DeliveredOnce(c, log[k].x, 0, 0)
                    /\ OnlyIssued({"npg_lo_creat"})
                    /\ Cardinality(QueriesOf(c)) = 1
                    /\ c \notin DOMAIN ws
            /\ \A k \in Refused(c, "npg_lo_open") :
                    /\ DeliveredOnce(c, log[k].x, 0, 0)
                    /\ OnlyIssued({"npg_lo_creat", "npg_lo_open"})
                    /\ Cardinality(QueriesOf(c)) = 2
                    /\ c \notin DOMAIN ws
                    /\ \A o \in Succeeded(c, "npg_lo_creat") : log[o].y \in DOMAIN objects

\* the creation has succeeded and the open has failed: the callback was
\* called with the error of the open, and the new large object 2 exists
C37_Witness ==
    \E c \in DOMAIN calls :
        /\ calls[c].op = "createAndWritableStream"
        /\ calls[c].cbs = <<<<DatabaseError(2), 0, 0>>>>
        /\ Succeeded(c, "npg_lo_creat") # {}
        /\ Refused(c, "npg_lo_open") # {}
        /\ 2 \in DOMAIN objects
        /\ queue = <<>>

\* the creation has failed: the dual is rejected with its error
C37_WitnessCreate ==
    \E c \in DOMAIN calls :
        /\ calls[c].op = "createAndWritableStream"
        /\ calls[c].promise = [state |-> "rejected", value |-> DatabaseError(1)]
        /\ Refused(c, "npg_lo_creat") # {}

\* ------------------------------------------------------------------- C38
\* the calls of one query whose function, given to this._query, calls the
\* caller's own callback: each call of that function is a call of the callback
OneQueryCalls ==
    {c \in DOMAIN calls :
        /\ calls[c].op \in {"open", "create", "unlink"}
        /\ calls[c].style \in {"callback", "throwing"}
        /\ calls[c].thrown = NoError}

\* C38: with the adapter of pg-promise, the function given with a query is not
\* called before the query is answered and is called exactly once when it is:
\* with the result when tx.query resolves, with the error when it rejects, and
\* once also when the function throws as it is called with the result.
C38_Claimed ==
    adapter = "pgPromise" =>
        \A c \in OneQueryCalls :
            /\ AnswersOf(c) = {} => calls[c].cbs = <<>>
            /\ \A k \in AnswersOf(c) : calls[c].cbs = <<Due(c, k)>>

\* the same, for callbacks that do not throw
C38_OnceUnlessThrown ==
    adapter = "pgPromise" =>
        \A c \in OneQueryCalls :
            /\ AnswersOf(c) = {} => calls[c].cbs = <<>>
            /\ \A k \in AnswersOf(c) :
                    IF calls[c].style = "throwing" /\ log[k].x = NoError
                    THEN calls[c].cbs = <<Due(c, k), <<Error("baz"), 0, 0>>>>
                    ELSE calls[c].cbs = <<Due(c, k)>>

\* open(1, READ, callback) under pg-promise: the query has succeeded, the
\* callback has thrown, and it was called a second time with what it threw
C38_CalledTwice ==
    /\ adapter = "pgPromise"
    /\ \E c \in OneQueryCalls :
            /\ calls[c].op = "open" /\ calls[c].style = "throwing"
            /\ calls[c].cbs = <<<<NoError, LargeObject(JsNum(1), 0), 0>>, <<Error("baz"), 0, 0>>>>

\* ------------------------------------------------------------------- C39
\* the calls of promiseFromCallback with a function that calls its callback
CallbackCalled ==
    {c \in DOMAIN calls :
        calls[c].op = "promiseFromCallback" /\ calls[c].args[1].kind # "throws"}

\* what the first call callback(error, arg1, arg2) settles the promise to
Settles(error, arg1, arg2, twoArgs) ==
    IF error # NoError THEN [state |-> "rejected", value |-> error]
    ELSE IF twoArgs THEN [state |-> "fulfilled", value |-> <<arg1, arg2>>]
    ELSE [state |-> "fulfilled", value |-> arg1]

\* C39: the promise of promiseFromCallback(fn, self, options) is settled by the
\* first call of the callback: rejected with the error when there is one,
\* otherwise fulfilled with the second argument, or with the pair of the
\* second and third when options.twoArgs is set; a second call of the
\* callback, and an exception of fn after the first, leave it as it is.
C39_SettledByFirstCall ==
    \A c \in CallbackCalled :
        LET fn == calls[c].args[1]
            first == Settles(fn.error, fn.arg1, fn.arg2, calls[c].args[3])
        IN  /\ calls[c].promise.state = first.state
            /\ calls[c].promise.value = first.value
            /\ calls[c].thrown = NoError

\* callback(Error('foo'), 1234, 4567) and then callback(null, 4567, 1234), with
\* twoArgs: the promise stays rejected with Error('foo')
C39_Witness ==
    \E c \in CallbackCalled :
        /\ calls[c].args[1] = [kind |-> "callsTwice", error |-> Error("foo"), arg1 |-> 1234,
                               arg2 |-> 4567, second |-> NoError]
        /\ calls[c].args[3]
        /\ calls[c].promise = [state |-> "rejected", value |-> Error("foo")]

\* callback(null, 1234, 4567) with twoArgs and then callback(Error('late')):
\* the promise stays fulfilled with [1234, 4567]
C39_WitnessTwoArgs ==
    \E c \in CallbackCalled :
        /\ calls[c].args[1].kind = "callsTwice"
        /\ calls[c].args[1].second = Error("late")
        /\ calls[c].args[3]
        /\ calls[c].promise = [state |-> "fulfilled", value |-> <<1234, 4567>>]

====
